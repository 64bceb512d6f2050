------------------------------ MODULE JobManifest ------------------------------
(***************************************************************************)
(* scheduling/kubernetes.py, job_scheduler.py and                          *)
(* resolvers/resource_requirements.py: the Kubernetes jobs that the server *)
(* makes of a pipeline run and its runs, from what the functions ask for,  *)
(* the user's settings and the server's own settings.                      *)
(***************************************************************************)
EXTENDS Integers, FiniteSets, Sequences, SequencesExt

CONSTANT MaxJobs     \* bound on the jobs asked for

VARIABLES
  pipeline,    \* the resolution: [status, image, version, settings]
  requirements, \* what the functions of this pipeline ask for
  runStates,   \* the future states of its runs
  server,      \* the server's settings
  submitted,   \* the jobs submitted to Kubernetes, oldest first, with its verdict
  refused      \* the number of requests that the server refused

manifestVars == <<pipeline, requirements, runStates, server, submitted, refused>>

None == "none"
Runs == {1, 2}
NoEnv == <<>>

-----------------------------------------------------------------------------
(* Resource requirements.  A host path is [node, pod, name].                  *)

Asking == [files |-> {}, envSecrets |-> {}, sharedMemory |-> FALSE, context |-> FALSE,
           hostPaths |-> <<>>, annotations |-> {}, labels |-> {}]
HostPath(pod, name) == [node |-> "/disk", pod |-> pod, name |-> name]
Absolute(path) == path # "relative"

\* __post_init__ makes a name of the path in the pod: '_' and '/' become '-',
\* a long one is cut at 64 characters and ends at random.
GivenName(path) == IF path.name # None THEN path.name
                   ELSE CASE path.pod \in {"/a/b", "/a_b"} -> "volume-a-b"
                          [] path.pod = "/Data"            -> "volume-Data"
                          [] path.pod = "/a/long/path"     -> "volume-of-64-characters"
                          [] OTHER                         -> "volume-data"
\* _validate_rfc1123_label lets 64 characters pass, Kubernetes lets 63.
Label(name) == name # "volume-Data"
ShortLabel(name) == Label(name) /\ name # "volume-of-64-characters"

Volume(name, path) == [name |-> name, path |-> path]
SecretsName == "sematic-func-secrets-volume"
MemoryName == "expanded-shared-memory-volume"
\* The volumes of a pod, each with the path where it is mounted.
Volumes(ask) ==
  (IF ask.files # {} THEN <<Volume(SecretsName, "/secrets")>> ELSE <<>>)
  \o (IF ask.sharedMemory THEN <<Volume(MemoryName, "/dev/shm")>> ELSE <<>>)
  \o [n \in DOMAIN ask.hostPaths |-> Volume(GivenName(ask.hostPaths[n]), ask.hostPaths[n].pod)]

\* The ValueErrors raised while the job is made.
Allowed(ask) ==
  /\ \A file \in ask.files : file # "/absolute"
  /\ ask.context => server.contexts
  /\ ask.hostPaths # <<>> => server.hostPaths
  /\ \A n \in DOMAIN ask.hostPaths : /\ Label(GivenName(ask.hostPaths[n]))
                                     /\ Absolute(ask.hostPaths[n].node)
                                     /\ Absolute(ask.hostPaths[n].pod)
  /\ server.pullSecrets # "malformed"

Annotations(ask) == {"safe-to-evict"} \cup (ask.annotations \cap server.annotations)
Labels(ask) == ask.labels \cap (server.labels \ {"job-name"})

-----------------------------------------------------------------------------
(* The environment of the container: pairs in order, of which Kubernetes takes *)
(* the last with a name.                                                       *)

Var(name, value) == <<name, value>>
Fixed(image) == <<Var("SEMATIC_CONTAINER_IMAGE", image), Var("ON_WORKER", "1"), Var("POD_NAME", "own")>>
Setting(name, value) == [n \in {name} |-> value]
\* The settings of mine, and those of other that mine has not.
Over(mine, other) ==
  [n \in DOMAIN mine \cup DOMAIN other |-> IF n \in DOMAIN mine THEN mine[n] ELSE other[n]]
OwnAddress == IF server.address = None THEN NoEnv ELSE Setting("SEMATIC_API_ADDRESS", server.address)
Bucket(settings) == IF "AWS_S3_BUCKET" \in DOMAIN settings \/ server.bucket = None THEN NoEnv
                    ELSE Setting("AWS_S3_BUCKET", server.bucket)
\* Mutant: the user's address comes after the server's.
SettingsUserFirst(settings) == Over(Bucket(settings), Over(settings, OwnAddress))
Settings(settings) == Over(Bucket(settings), Over(OwnAddress, settings))
Pairs(env) == SetToSeq({Var(name, env[name]) : name \in DOMAIN env})
Environment(image, settings, ask) ==
  Fixed(image) \o Pairs(Settings(settings)) \o SetToSeq({Var(name, "secret") : name \in ask.envSecrets})
Seen(env, name) == LET at == {n \in DOMAIN env : env[n][1] = name}
                   IN  IF at = {} THEN None ELSE env[CHOOSE n \in at : \A m \in at : m <= n][2]

\* The job of the pipeline run has a name of its own, a run's job a new one each time.
Job(run, ask) ==
  [name |-> <<run, IF run = 0 THEN 0 ELSE Cardinality({n \in DOMAIN submitted : submitted[n].run = run})>>,
   run |-> run, image |-> pipeline.image, asked |-> ask, volumes |-> Volumes(ask),
   annotations |-> Annotations(ask), labels |-> Labels(ask), address |-> server.address,
   environment |-> Environment(pipeline.image, pipeline.settings, ask), accepted |-> FALSE]

\* What Kubernetes refuses, as far as the server can cause it.
AllDifferent(s) == \A m, n \in DOMAIN s : m # n => s[m] # s[n]
Accepts(job) ==
  /\ \A n \in DOMAIN submitted : submitted[n].accepted => submitted[n].name # job.name
  /\ AllDifferent([n \in DOMAIN job.volumes |-> job.volumes[n].name])
  /\ AllDifferent([n \in DOMAIN job.volumes |-> job.volumes[n].path])
  /\ \A n \in DOMAIN job.volumes : ShortLabel(job.volumes[n].name)
Send(job) == submitted' = Append(submitted, [job EXCEPT !.accepted = Accepts(job)])

-----------------------------------------------------------------------------
Requirements ==
  {[Asking EXCEPT !.files = {"cert"}, !.sharedMemory = TRUE, !.labels = {"team", "job-name"}],
   [Asking EXCEPT !.envSecrets = {"SEMATIC_API_ADDRESS"}, !.annotations = {"safe-to-evict", "note"}],
   [Asking EXCEPT !.files = {"/absolute"}], [Asking EXCEPT !.context = TRUE],
   [Asking EXCEPT !.sharedMemory = TRUE, !.hostPaths = <<HostPath("/a/b", None), HostPath("/data", None)>>],
   [Asking EXCEPT !.hostPaths = <<HostPath("/a/b", None), HostPath("/a_b", None)>>],
   [Asking EXCEPT !.files = {"cert"}, !.hostPaths = <<HostPath("/data", SecretsName)>>],
   [Asking EXCEPT !.hostPaths = <<HostPath("/a/long/path", None)>>],
   [Asking EXCEPT !.hostPaths = <<HostPath("/Data", None)>>],
   [Asking EXCEPT !.hostPaths = <<HostPath("relative", "disk")>>]}

UserSettings ==
  {NoEnv, Setting("SEMATIC_API_ADDRESS", "local"),
   Over(Setting("SEMATIC_API_ADDRESS", "local"), Setting("AWS_S3_BUCKET", "mine"))}

Init ==
  /\ \E image \in {"image", None}, version \in {1, 2}, settings \in UserSettings :
       pipeline = [status |-> "CREATED", image |-> image, version |-> version, settings |-> settings]
  /\ requirements \in Requirements
  /\ runStates = [r \in Runs |-> "CREATED"] /\ submitted = <<>> /\ refused = 0
  /\ server = [address |-> None, bucket |-> None, contexts |-> FALSE, hostPaths |-> FALSE,
               annotations |-> {}, labels |-> {}, pullSecrets |-> "none"]

MayAsk == Len(submitted) + refused < MaxJobs
Refuse == refused' = refused + 1 /\ UNCHANGED <<pipeline, runStates, submitted>>

\* The minimum client version that the server supports is 2.
Schedulable == pipeline.status = "CREATED" /\ pipeline.image # None /\ pipeline.version >= 2
ScheduleResolution ==
  /\ MayAsk
  /\ IF ~Schedulable \/ ~Allowed(Asking) THEN Refuse
     ELSE LET job == Job(0, Asking)
          IN  /\ Send(job) /\ UNCHANGED <<runStates, refused>>
              /\ \/ Accepts(job) /\ pipeline' = [pipeline EXCEPT !.status = "SCHEDULED"]
                 \/ UNCHANGED pipeline
  /\ UNCHANGED <<requirements, server>>
\* The runner in the pipeline run's job tells the server that it runs.
RunnerStarts == /\ pipeline.status = "SCHEDULED" /\ pipeline' = [pipeline EXCEPT !.status = "RUNNING"]
                /\ UNCHANGED <<requirements, runStates, server, submitted, refused>>

\* The runs' jobs, with the image of the pipeline run; the request that finds an
\* error leaves the run as it was.
ScheduleRun(r) ==
  /\ MayAsk
  /\ IF runStates[r] \notin {"CREATED", "RETRYING"} \/ pipeline.status # "RUNNING" \/ ~Allowed(requirements)
     THEN Refuse
     ELSE LET job == Job(r, requirements)
          IN  /\ Send(job)
              /\ runStates' = IF Accepts(job) THEN [runStates EXCEPT ![r] = "SCHEDULED"] ELSE runStates
              /\ UNCHANGED <<pipeline, refused>>
  /\ UNCHANGED <<requirements, server>>
Retry(r) == /\ runStates[r] = "SCHEDULED" /\ runStates' = [runStates EXCEPT ![r] = "RETRYING"]
            /\ UNCHANGED <<pipeline, requirements, server, submitted, refused>>

Configure == /\ server' \in {[server EXCEPT !.address = "cluster"], [server EXCEPT !.bucket = "shared"],
                             [server EXCEPT !.contexts = TRUE], [server EXCEPT !.hostPaths = TRUE],
                             [server EXCEPT !.annotations = {"safe-to-evict"}, !.labels = {"team", "job-name"}],
                             [server EXCEPT !.pullSecrets = "malformed"]}
             /\ server' # server
             /\ UNCHANGED <<pipeline, requirements, runStates, submitted, refused>>

Next == \/ ScheduleResolution \/ RunnerStarts \/ Configure
        \/ \E r \in Runs : ScheduleRun(r) \/ Retry(r)

-----------------------------------------------------------------------------
\* Kubernetes accepts a job that the server makes, unless host paths are named
\* like another volume or with 64 characters, or the job of the pipeline run is
\* there already.
OddHostPaths(ask) == \E n \in DOMAIN ask.hostPaths :
                       \/ ~ShortLabel(GivenName(ask.hostPaths[n]))
                       \/ \E m \in DOMAIN Volumes(ask) : \E k \in DOMAIN Volumes(ask) \ {m} :
                            Volumes(ask)[m].name = Volumes(ask)[k].name
SubmittedIsAccepted == \A n \in DOMAIN submitted :
  \/ submitted[n].accepted
  \/ submitted[n].run = 0 /\ \E m \in 1 .. n - 1 : submitted[m].run = 0
  \/ OddHostPaths(submitted[n].asked)

\* In a container the client meets the server at the address meant for workers,
\* whatever the user's own settings say, unless a secret takes the name.
WorkersMeetTheServer ==
  \A n \in DOMAIN submitted :
    /\ Seen(submitted[n].environment, "SEMATIC_CONTAINER_IMAGE") = submitted[n].image
    /\ \/ "SEMATIC_API_ADDRESS" \in submitted[n].asked.envSecrets
       \/ submitted[n].address \in {None, Seen(submitted[n].environment, "SEMATIC_API_ADDRESS")}

\* The invariant behind both: a run's job has the number of the jobs made before it.
Before(n) == {m \in 1 .. n - 1 : submitted[m].run = submitted[n].run}
Numbered(n) == /\ submitted[n].run \in Runs \cup {0} /\ submitted[n].name[1] = submitted[n].run
               /\ submitted[n].run # 0 => submitted[n].name[2] = Cardinality(Before(n))
ManifestInv ==
  /\ pipeline \in [status : {"CREATED", "SCHEDULED", "RUNNING"}, image : {"image", None}, version : {1, 2},
                   settings : UserSettings]
  /\ requirements \in Requirements
  /\ submitted \in Seq({submitted[n] : n \in DOMAIN submitted})
  /\ \A n \in DOMAIN submitted : Numbered(n)
  /\ SubmittedIsAccepted /\ WorkersMeetTheServer
=============================================================================
