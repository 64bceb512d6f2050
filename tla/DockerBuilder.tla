----------------------------- MODULE DockerBuilder -----------------------------
(***************************************************************************)
(* plugins/building/docker_builder.py, docker_builder_config.py and        *)
(* cli/run.py: `sematic run --build` commands that share a Docker server   *)
(* and push to a registry, then launch the pipeline with the image's URI.  *)
(* The streams of docker-py are never None, and nobody removes images.     *)
(***************************************************************************)
EXTENDS Integers, FiniteSets, Sequences

CONSTANTS
  Builders,      \* the commands
  MaxImages      \* bound on the images built

VARIABLES
  layout,        \* the build configuration files of the project, by path
  edition,       \* the edition of the project's files
  baseEdition,   \* the edition of the image that the base image's tag names
  images,        \* the images built: [base, files]
  tagged,        \* what the Docker server's names stand for
  repoDigests,   \* the repositories that each image was pushed to or pulled from
  remoteTags,    \* what the registries' tags stand for
  remoteImages,  \* the images that the registries hold: <<repository, image>>
  builders       \* the commands: where each is and what it holds

dockerVars == <<layout, edition, baseEdition, images, tagged, repoDigests, remoteTags,
                remoteImages, builders>>

None == "none"
NoPush == [repository |-> None, suffix |-> None]

\* A name stands for something from now on.
With(names, name, value) ==
  [n \in DOMAIN names \cup {name} |-> IF n = name THEN value ELSE names[n]]

-----------------------------------------------------------------------------
(* Build configurations: [version, script, base, data, src, push], push being *)
(* none or [repository, suffix], data and src sets of globs.                  *)

Targets == {"d/one", "d/two", "e/one"}
DirName(target) == IF target = "e/one" THEN "e" ELSE "d"
Matches(glob) == CASE glob = "//d/*" -> {"d/one", "d/two"} [] glob = "one" -> {"d/one"}
                   [] OTHER -> {}
Outside(glob) == glob = "../../lib"

Unnamed == "unnamed"   \* the empty name
Plain == [version |-> 1, script |-> FALSE, base |-> "base", data |-> {}, src |-> {}, push |-> NoPush]
PushTo(repository, suffix) == [repository |-> repository, suffix |-> suffix]

\* __post_init__ of the configuration and of its parts, and _normalize_paths.
Valid(c) == /\ c.version = 1
            /\ c.script # (c.base # None)
            /\ c.push # NoPush => c.push.repository # Unnamed
            /\ \A glob \in c.data \cup c.src : ~Outside(glob)

MergePush(mine, other) ==
  IF other = NoPush THEN mine
  ELSE IF mine # NoPush /\ other.suffix = None THEN [other EXCEPT !.suffix = mine.suffix] ELSE other
\* The base of the nearer file replaces the other; lists are concatenated.
Merge(mine, other) ==
  [version |-> mine.version, script |-> other.script, base |-> other.base,
   data |-> mine.data \cup other.data, src |-> mine.src \cup other.src,
   push |-> MergePush(mine.push, other.push)]

\* From the project's root to the script's own file; there must be one.
DirFile(target) == DirName(target) \o "/sematic_build"
ConfigFiles(target) == {"sematic_build", DirFile(target), target} \cap DOMAIN layout
Loads(target) == ConfigFiles(target) # {} /\ \A path \in ConfigFiles(target) : Valid(layout[path])
NoConfig == [Plain EXCEPT !.version = 0]
Loaded(mine, path) == IF path \notin DOMAIN layout THEN mine
                      ELSE IF mine = NoConfig THEN layout[path] ELSE Merge(mine, layout[path])
BuildConfigOf(target) ==
  Loaded(Loaded(Loaded(NoConfig, "sematic_build"), DirFile(target)), target)

Tag(push) == IF push.suffix = None THEN "default" ELSE "default_" \o push.suffix
LocalName(target, c) == <<DirName(target), IF c.push = NoPush THEN "default" ELSE Tag(c.push)>>
RemoteName(c) == <<c.push.repository, Tag(c.push)>>

\* The files that the Dockerfile copies, and the image it makes: FROM takes the
\* base by its tag.
Copied(target, c) ==
  (UNION {Matches(glob) : glob \in c.data})
  \cup (IF c.src # {} THEN UNION {Matches(glob) : glob \in c.src}
        ELSE IF c.base # None THEN {target} ELSE {})
Dockerfile(target, c) == [base |-> <<IF c.script THEN "scripted" ELSE c.base, baseEdition>>,
                          files |-> [f \in Copied(target, c) |-> edition]]

-----------------------------------------------------------------------------
Layouts ==
  LET pushing == [Plain EXCEPT !.push = PushTo("reg/app", None)]
      only(path, c) == [p \in {path} |-> c]
      root(c)    == only("sematic_build", c)
      both(c, d) == With(root(c), "d/sematic_build", d)
  IN  {root(Plain), root(pushing),
       both(pushing, [Plain EXCEPT !.push = PushTo("reg:5000/app", None), !.src = {"one"}]),
       With(both(pushing, [Plain EXCEPT !.base = None, !.script = TRUE, !.data = {"//d/*"}]),
            "d/two", [Plain EXCEPT !.push = PushTo("reg/app", "x"), !.src = {"nothing"}]),
       only("d/one", [Plain EXCEPT !.base = None]), only("d/one", [Plain EXCEPT !.src = {"../../lib"}]),
       root([Plain EXCEPT !.push = PushTo(Unnamed, None)]), root([Plain EXCEPT !.version = 2])}

NoUri == [repository |-> None, tag |-> None, image |-> 0]
Idle == [at |-> "idle", target |-> None, noCache |-> FALSE, config |-> Plain, image |-> 0,
         built |-> 0, uri |-> NoUri, raced |-> FALSE]

Init == /\ layout \in Layouts /\ edition = 1 /\ baseEdition = 1 /\ images = <<>> /\ tagged = <<>>
        /\ repoDigests = <<>> /\ remoteTags = <<>> /\ remoteImages = {}
        /\ builders = [p \in Builders |-> Idle]

At(p, place) == builders[p].at = place
Goes(p, place) == builders' = [builders EXCEPT ![p].at = place]
Config(p) == builders[p].config

\* cli/run.py, then the configuration.
Builds(p, target, noCache) ==
  /\ Loads(target)
  /\ builders' = [builders EXCEPT ![p].at = "connect", ![p].target = target, ![p].noCache = noCache,
                                  ![p].config = BuildConfigOf(target)]
Run(p) ==
  /\ At(p, "idle")
  /\ \E target \in Targets, build, noCache \in BOOLEAN :
       \/ build /\ Builds(p, target, noCache)
       \/ build /\ ~Loads(target) /\ Goes(p, "failed")
       \/ ~build /\ noCache /\ Goes(p, "failed")
       \/ ~build /\ ~noCache /\ Goes(p, "local")
  /\ UNCHANGED <<layout, edition, baseEdition, images, tagged, repoDigests, remoteTags, remoteImages>>

\* The Docker server may not answer.
Connect(p) ==
  /\ At(p, "connect")
  /\ Goes(p, "script") \/ Goes(p, "failed")
  /\ UNCHANGED <<layout, edition, baseEdition, images, tagged, repoDigests, remoteTags, remoteImages>>

\* Layers are pulled, and the cache is used, unless --no-cache.
AfterScript(p) == IF builders[p].noCache THEN "build" ELSE "pull"

\* Any failure of the script, an exit included, is a BuildError.
Script(p) ==
  /\ At(p, "script")
  /\ \/ Goes(p, AfterScript(p))
     \/ Config(p).script /\ Goes(p, "failed")
  /\ UNCHANGED <<layout, edition, baseEdition, images, tagged, repoDigests, remoteTags, remoteImages>>

Known(i) == IF i \in DOMAIN repoDigests THEN repoDigests[i] ELSE {}
Locates(i, repository) == With(repoDigests, i, Known(i) \cup {repository})

\* A pull that fails is ignored.
Pull(p) ==
  /\ At(p, "pull") /\ Goes(p, "build")
  /\ \/ UNCHANGED <<tagged, repoDigests>>
     \/ /\ Config(p).push # NoPush
        /\ RemoteName(Config(p)) \in DOMAIN remoteTags
        /\ LET i == remoteTags[RemoteName(Config(p))]
           IN  /\ tagged' = With(tagged, RemoteName(Config(p)), i)
               /\ repoDigests' = Locates(i, Config(p).push.repository)
  /\ UNCHANGED <<layout, edition, baseEdition, images, remoteTags, remoteImages>>

\* The Docker server gives the image the local name; its cache answers with an
\* image of the same content.
Cached(content) == {i \in DOMAIN images : images[i] = content}
Named(p, i) ==
  LET name == LocalName(builders[p].target, Config(p))
  IN  /\ tagged' = With(tagged, name, i)
      /\ builders' = [q \in Builders |->
           IF q = p THEN [builders[p] EXCEPT !.at = "inspect", !.built = i]
           ELSE IF At(q, "inspect") /\ LocalName(builders[q].target, Config(q)) = name
           THEN [builders[q] EXCEPT !.raced = TRUE] ELSE builders[q]]
Build(p) ==
  /\ At(p, "build")
  /\ LET content == Dockerfile(builders[p].target, Config(p))
     IN  \/ /\ ~builders[p].noCache /\ UNCHANGED images
            /\ \E i \in Cached(content) : Named(p, i)
         \/ /\ builders[p].noCache \/ Cached(content) = {}
            /\ Len(images) < MaxImages /\ images' = Append(images, content)
            /\ Named(p, Len(images) + 1)
         \/ Goes(p, "failed") /\ UNCHANGED <<images, tagged>>
  /\ UNCHANGED <<layout, edition, baseEdition, repoDigests, remoteTags, remoteImages>>

\* images.get looks the local name up again.
Uri(name, i) == [repository |-> name[1], tag |-> name[2], image |-> i]
Inspect(p) ==
  /\ At(p, "inspect")
  /\ LET name == LocalName(builders[p].target, Config(p))
     IN  builders' = [builders EXCEPT ![p].image = tagged[name], ![p].uri = Uri(name, tagged[name]),
                                      ![p].at = IF Config(p).push = NoPush THEN "launch" ELSE "tag"]
  /\ UNCHANGED <<layout, edition, baseEdition, images, tagged, repoDigests, remoteTags, remoteImages>>

TagImage(p) ==
  /\ At(p, "tag")
  /\ \/ tagged' = With(tagged, RemoteName(Config(p)), builders[p].image) /\ Goes(p, "push")
     \/ UNCHANGED tagged /\ Goes(p, "failed")
  /\ UNCHANGED <<layout, edition, baseEdition, images, repoDigests, remoteTags, remoteImages>>

\* What is pushed is the image that the name stands for now.
Push(p) ==
  /\ At(p, "push")
  /\ LET name == RemoteName(Config(p))
         i    == tagged[name]
     IN  \/ /\ remoteTags' = With(remoteTags, name, i)
            /\ remoteImages' = remoteImages \cup {<<name[1], i>>}
            /\ repoDigests' = Locates(i, name[1])
            /\ Goes(p, "reload")
         \/ Goes(p, "failed") /\ UNCHANGED <<remoteTags, remoteImages, repoDigests>>
  /\ UNCHANGED <<layout, edition, baseEdition, images, tagged>>

\* Mutant: the repository pushed to stands for the digest.
ConfiguredRepository(p) == {Config(p).push.repository}

\* _reload_image_uri waits until the image has a digest and takes the first one;
\* the tag is that of any name, which must have one colon.
RepoDigests(p) == Known(builders[p].image)
RepoTags(i) == {name \in DOMAIN tagged : tagged[name] = i}
HasPort(repository) == repository = "reg:5000/app"
Reload(p) ==
  /\ At(p, "reload")
  /\ \E repository \in RepoDigests(p) :
       \/ /\ RepoTags(builders[p].image) = {}
          /\ Goes(p, "failed")
       \/ \E name \in RepoTags(builders[p].image) :
            IF HasPort(name[1]) THEN Goes(p, "failed")
            ELSE builders' = [builders EXCEPT ![p].at = "launch",
                                ![p].uri = Uri(<<repository, name[2]>>, builders[p].image)]
  /\ UNCHANGED <<layout, edition, baseEdition, images, tagged, repoDigests, remoteTags, remoteImages>>

\* The target runs with repr(uri) in its environment, which keeps the digest.
Launch(p) ==
  /\ At(p, "launch") /\ Goes(p, "launched")
  /\ UNCHANGED <<layout, edition, baseEdition, images, tagged, repoDigests, remoteTags, remoteImages>>

Edit == /\ edition = 1 /\ edition' = 2
        /\ UNCHANGED <<layout, baseEdition, images, tagged, repoDigests, remoteTags, remoteImages, builders>>
BaseMoves == /\ baseEdition = 1 /\ baseEdition' = 2
             /\ UNCHANGED <<layout, edition, images, tagged, repoDigests, remoteTags, remoteImages, builders>>

Next == \/ \E p \in Builders : \/ Run(p) \/ Connect(p) \/ Script(p) \/ Pull(p) \/ Build(p) \/ Inspect(p)
                               \/ TagImage(p) \/ Push(p) \/ Reload(p) \/ Launch(p)
        \/ Edit \/ BaseMoves

-----------------------------------------------------------------------------
Launched == {p \in Builders : At(p, "launched")}

\* Whatever other commands do to the same names meanwhile, the URI that a
\* pipeline is launched with names an image that its registry holds, ...
LaunchedCanBePulled ==
  \A p \in Launched : Config(p).push # NoPush =>
    <<builders[p].uri.repository, builders[p].uri.image>> \in remoteImages

\* ... and the image is the one built from the target's own configuration,
\* unless another command built an image of the same local name just then.
LaunchedIsTheOneBuilt ==
  \A p \in Launched : ~builders[p].raced =>
    /\ builders[p].uri.image = builders[p].built
    /\ DOMAIN images[builders[p].built].files = Copied(builders[p].target, Config(p))

-----------------------------------------------------------------------------
(* The invariant that the theorem about the two rests on (PlatformProofs).    *)

Repositories == {None, Unnamed, "reg/app", "reg:5000/app"}
Suffixes == {None, "x"}
Tags == {"default"} \cup {"default_" \o suffix : suffix \in Suffixes}
Names == (Repositories \cup {"d", "e"}) \X Tags
Globs == {"//d/*", "one", "nothing", "../../lib"}
Configs == [version : {0, 1, 2}, script : BOOLEAN, base : {"base", None}, data : SUBSET Globs,
            src : SUBSET Globs, push : [repository : Repositories, suffix : Suffixes]]
Contents == [base : {"scripted", "base", None} \X {1, 2},
             files : UNION {[paths -> {1, 2}] : paths \in SUBSET Targets}]
HasBuilt == {"inspect", "tag", "push", "reload", "launch", "launched"}
HasUri == {"launch", "launched"}
Builder == [at : {"idle", "failed", "local", "connect", "script", "pull", "build"} \cup HasBuilt,
            target : Targets \cup {None}, noCache : BOOLEAN, config : Configs, image : Nat, built : Nat,
            uri : [repository : Repositories \cup {"d", "e"}, tag : Tags \cup {None}, image : Nat],
            raced : BOOLEAN]

Stands(names) == /\ names = [n \in DOMAIN names |-> names[n]] /\ DOMAIN names \subseteq Names
                 /\ \A n \in DOMAIN names : names[n] \in Nat
BuildTyped ==
  /\ \A path \in DOMAIN layout : layout[path] \in Configs
  /\ edition \in {1, 2} /\ baseEdition \in {1, 2} /\ images \in Seq(Contents)
  /\ Stands(tagged) /\ Stands(remoteTags)
  /\ repoDigests = [i \in DOMAIN repoDigests |-> repoDigests[i]]
  /\ \A i \in DOMAIN repoDigests : repoDigests[i] \subseteq Repositories
  /\ remoteImages \subseteq Repositories \X Nat
  /\ builders \in [Builders -> Builder]

\* A registry has what its tags stand for, and what the Docker server has seen in it.
RegistryHas ==
  /\ \A name \in DOMAIN remoteTags : <<name[1], remoteTags[name]>> \in remoteImages
  /\ \A i \in DOMAIN repoDigests : \A repository \in repoDigests[i] : <<repository, i>> \in remoteImages

\* What each command may rely on, where it is; b is builders[p].
Relies(b) ==
  /\ b.at \notin {"idle", "failed", "local"} => b.target \in Targets
  /\ b.at \in HasBuilt => /\ b.built \in DOMAIN images
                          /\ DOMAIN images[b.built].files = Copied(b.target, b.config)
  /\ b.at = "inspect" =>
       /\ LocalName(b.target, b.config) \in DOMAIN tagged
       /\ ~b.raced => tagged[LocalName(b.target, b.config)] = b.built
  /\ b.at = "push" => RemoteName(b.config) \in DOMAIN tagged
  /\ b.at \in HasBuilt \ {"inspect"} /\ ~b.raced => b.image = b.built
  /\ b.at \in HasUri => /\ b.uri.image = b.image
                        /\ b.config.push # NoPush => <<b.uri.repository, b.uri.image>> \in remoteImages

BuildInv == BuildTyped /\ RegistryHas /\ \A p \in Builders : Relies(builders[p])
=============================================================================
