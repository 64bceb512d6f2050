------------------------------ MODULE MCPlatform ------------------------------
(***************************************************************************)
(* Six parts of the platform that share no state with each other, checked  *)
(* in one run: `subject` picks the part that a behaviour is about.  No     *)
(* part has more than nine variables, and nine stand for those of each.    *)
(***************************************************************************)
EXTENDS Integers, Sequences, FiniteSets

CONSTANTS MaxRows, PageSize, MaxRequests, MaxAtOnce, MaxCommands, Processes, Builders,
          MaxImages, MaxJobs, Workers, Tries

\* A page has room for a run.
ASSUME PageAssumption == PageSize \in Nat \ {0}

\* There is a run that a client blocks on.
ASSUME WorkersAssumption == IsFiniteSet(Workers) /\ 1 \in Workers /\ Tries \in Nat \ {0}

VARIABLES subject, x1, x2, x3, x4, x5, x6, x7, x8, x9

L == INSTANCE Listing WITH rows <- x1, asked <- x2, loads <- x3, cache <- x4, page <- x5, broken <- x6,
     patient <- x7, began <- x8, reply <- x9
M == INSTANCE Metrics WITH runTable <- x1, jobsLeft <- x2, labelRows <- x3, valueRows <- x4,
     serving <- x5, sent <- x6, overlapped <- x7, uncounted <- x8
C == INSTANCE CommandLine WITH versions <- x1, schema <- x2, settingsFile <- x3, serverFile <- x4,
     commands <- x5, started <- x6, wanted <- x7, disturbed <- x8, killed <- x9
D == INSTANCE DockerBuilder WITH layout <- x1, edition <- x2, baseEdition <- x3, images <- x4, tagged <- x5,
     repoDigests <- x6, remoteTags <- x7, remoteImages <- x8, builders <- x9
J == INSTANCE JobManifest WITH pipeline <- x1, requirements <- x2, runStates <- x3, server <- x4,
     submitted <- x5, refused <- x6
A == INSTANCE ApiClient WITH backend <- x1, release <- x2, artifactOf <- x3, states <- x4, outputs <- x5,
     payloads <- x6, storers <- x7, workers <- x8, waiter <- x9

Init ==
  \/ subject = "listing" /\ L!Init
  \/ subject = "metrics" /\ M!Init /\ x9 = <<>>
  \/ subject = "cli" /\ C!Init
  \/ subject = "docker" /\ D!Init
  \/ subject = "manifest" /\ J!Init /\ x7 = <<>> /\ x8 = <<>> /\ x9 = <<>>
  \/ subject = "client" /\ A!Init
Next ==
  /\ UNCHANGED subject
  /\ \/ subject = "listing" /\ L!Next
     \/ subject = "metrics" /\ M!Next /\ UNCHANGED x9
     \/ subject = "cli" /\ C!Next
     \/ subject = "docker" /\ D!Next
     \/ subject = "manifest" /\ J!Next /\ UNCHANGED <<x7, x8, x9>>
     \/ subject = "client" /\ A!Next

allVars == <<subject, x1, x2, x3, x4, x5, x6, x7, x8, x9>>
Spec == Init /\ [][Next]_allVars

-----------------------------------------------------------------------------
\* What a reader of the runs list meets: every run once and in order, however runs
\* are created and end between two pages (Listing.ReaderSeesEveryRun), and only
\* runs that satisfy all of the conditions asked for (NoConditionIgnored).
ListsAreRight == subject = "listing" => L!ReaderSeesEveryRun /\ L!NoConditionIgnored

\* The metrics count no run twice, whatever is sent again or backfilled, unless
\* requests overlap; they miss only the runs whose count went with a request that
\* failed, until a backfill counts them; and they hold no value without its label
\* (Metrics).
RunsAreCounted == subject = "metrics" => M!RunsCountedOnce /\ M!ValuesAreLabelled

\* Commands that overlap or die leave the migrations on record in order, and one
\* after the other they keep every setting (CommandLine).
CommandsAreSafe == subject = "cli" => C!MigrationsInOrder /\ C!SettingsKept

\* A pipeline is launched with an image that its registry holds and that was built
\* for it, whatever other builds do to the same names (DockerBuilder).
LaunchesItsImage == subject = "docker" => D!LaunchedCanBePulled /\ D!LaunchedIsTheOneBuilt

\* Kubernetes accepts the jobs that the server makes, but for the host paths named
\* in JobManifest, and their workers meet the server at its own address.
JobsAreAccepted == subject = "manifest" => J!SubmittedIsAccepted /\ J!WorkersMeetTheServer

\* The graph names no payload that is missing or incomplete, and a client that
\* waited for a run reads its whole output (ApiClient).
OutputsCanBeRead == subject = "client" => A!NamedMeansStored /\ A!WholeOutput
=============================================================================
