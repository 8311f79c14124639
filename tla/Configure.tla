------------------------------ MODULE Configure ------------------------------
(***************************************************************************)
(* tastebot-configure (plugin.py, config.py): ClientConfigure takes the    *)
(* directories of an earlier run out of the .env file, names a root        *)
(* directory after the hash of what remains, fills it with the help of the *)
(* tendermint program and redis.conf that the build made, and adds the     *)
(* directories to the .env file.  Any step may fail or be interrupted.     *)
(***************************************************************************)
EXTENDS BuildLibs, Ordering, SequencesExt

CONSTANTS
  Setting,   \* what the user keeps in .env,
  Project,   \* and the one of them that names pyproject.toml
  Arguments, \* how many arguments ClientConfigure may be given
  Home,      \* the home directories of those who may run the commands,
  RootHome,  \* and the one named in the code, /root
  Shared,    \* the directory name tastebot, without a hash
  MaxEdits   \* bound: times the user writes .env anew

ASSUME EditsAssumption == MaxEdits \in Nat /\ Arguments \subseteq Nat

\* The lines update_envfile adds, in their order.
Generated == <<"TASTEBOT_ROOTDIR", "TMHOME", "REDIS_CONFIGDIR">>

\* The user keeps none of them.
ASSUME SettingAssumption ==
  IsFiniteSet(Setting) /\ Project \in Setting /\ Setting \cap ToSet(Generated) = {}

\* A line of the file is the set of what is on it: one name, or two that have
\* run together.
Line == SUBSET (Setting \cup ToSet(Generated))

\* No name is in the file twice.
Text ==
  [lines : {l \in Seq(Line) : \A i, j \in 1..Len(l) : i # j => l[i] \cap l[j] = {}},
   ended : BOOLEAN]
Empty == [lines |-> <<>>, ended |-> TRUE]

VARIABLES
  home,    \* the home directory of the user who runs the commands
  env,     \* the .env file; ended: its last line has a newline
  target,  \* the path its generated lines name
  volume,  \* the directory that was filled for them, by its text
  held,    \* what is to be written to it
  hash,    \* the directory being configured, by the text it is the hash of
  at,      \* where ClientConfigure is
  dirs,    \* the root directories in home/.cache, by the text they are the hash of
  exit,    \* how the last tastebot-configure ended, unless .env was edited since
  edits,   \* times the user has written .env
  cuts,    \* times .env was left truncated
  unended, \* generated lines were added to a line without newline
  badInit  \* root directories in which tendermint init has failed

envVars == <<target, volume>>
configVars ==
  <<home, env, envVars, held, hash, at, dirs, exit, edits, cuts, unended, badInit>>
vars == <<command, runs, buildVars, configVars>>

\* A user may leave out the last newline.
UserText == [lines : {[i \in 1..Cardinality(Setting) |-> {SetToSeq(Setting)[i]}]},
             ended : BOOLEAN]

NewDir == [toml |-> FALSE, edited |-> FALSE, tags |-> 0, keys |-> "none",
           conf |-> FALSE, modules |-> 0, port |-> FALSE]

ConfigInit ==
  /\ Init
  /\ home \in Home
  /\ env \in UserText
  /\ target = [home |-> RootHome, name |-> Empty] /\ volume = Empty
  /\ held = Empty /\ hash = Empty
  /\ at = "none"
  /\ dirs = [t \in {} |-> NewDir]
  /\ exit = "none"
  /\ edits = 0 /\ cuts = 0 /\ unended = FALSE /\ badInit = {}

EditEnv ==
  /\ command = "none"
  /\ edits < MaxEdits
  /\ edits' = edits + 1
  /\ env' \in UserText
  /\ exit' = "none"
  /\ UNCHANGED <<command, runs, buildVars, home, envVars, held, hash, at, dirs, cuts,
                 unended, badInit>>

-----------------------------------------------------------------------------
(* Rewriting the .env file: it is truncated, then written.                 *)

\* Variant: the last three lines are taken for the generated ones.
WithoutLastLines(t) ==
  [lines |-> SubSeq(t.lines, 1, Len(t.lines) - Len(Generated)), ended |-> TRUE]

\* The lines none of the names is on.
Without(t, names) ==
  LET lines == Pick(t.lines, Ascending({i \in DOMAIN t.lines : t.lines[i] \cap names = {}}))
  IN  [lines |-> lines,
       ended |-> lines = <<>> \/ Last(lines) # Last(t.lines) \/ t.ended]

\* Variant: one of the names is forgotten.
WithoutRootOnly(t) == Without(t, {"TASTEBOT_ROOTDIR", "REDIS_CONFIGDIR"})

\* recreate_envfile drops every line a generated name is on.
WithoutGenerated(t) == Without(t, ToSet(Generated))

\* update_envfile adds them, to the last line if that has no newline.
WithGenerated(t) ==
  LET added == [i \in 1..Len(Generated) |-> {Generated[i]}]
  IN  [lines |-> IF t.ended \/ t.lines = <<>> THEN t.lines \o added
                 ELSE Front(t.lines) \o <<Last(t.lines) \cup added[1]>> \o Tail(added),
       ended |-> TRUE]

Truncate(text) ==
  /\ held' = text
  /\ env' = Empty

-----------------------------------------------------------------------------
(* ClientConfigure.                                                        *)

\* A setting can be read from a line that has nothing else on it.
Alone(name) == \E i \in 1..Len(env.lines) : env.lines[i] = {name}

\* run_config reads the name of pyproject.toml from .env.  ClientConfigure wants
\* three arguments; run_config, which gives it two, does not look at what it
\* returns: the command ends well.
RunConfig(args) ==
  /\ command = "none"
  /\ runs < MaxRuns
  /\ runs' = runs + 1
  /\ \/ /\ Alone(Project) /\ args = 3
        /\ command' = "configure" /\ at' = "recreate"
        /\ exit' = "none"
     \/ /\ Alone(Project) /\ args # 3
        /\ exit' = "ok"
        /\ UNCHANGED <<command, at>>
     \/ /\ ~ Alone(Project)
        /\ exit' = "error"
        /\ UNCHANGED <<command, at>>
  /\ UNCHANGED <<buildVars, home, env, envVars, held, hash, dirs, edits, cuts, unended,
                 badInit>>

RecreateEnvfile ==
  /\ at = "recreate"
  /\ Truncate(WithoutGenerated(env))
  /\ at' = "recreating"
  /\ UNCHANGED <<envVars, hash, dirs, exit, unended, badInit>>

MakeRoot ==
  /\ at = "recreating"
  /\ env' = held
  /\ hash' = held
  /\ dirs' = IF held \in DOMAIN dirs THEN dirs
             ELSE [t \in DOMAIN dirs \cup {held} |->
                     IF t = held THEN NewDir ELSE dirs[t]]
  /\ at' = "config"
  /\ UNCHANGED <<envVars, held, exit, unended, badInit>>

\* ConfigOptions reads and checks pyproject.toml.
ReadConfig ==
  /\ at = "config"
  /\ at' = "init"
  /\ UNCHANGED <<env, envVars, held, hash, dirs, exit, unended, badInit>>

Fill(fields, next) ==
  /\ dirs' = [dirs EXCEPT ![hash] = fields]
  /\ at' = next
  /\ UNCHANGED <<env, envVars, held, hash, exit, unended, badInit>>

\* tendermint init makes config.toml, then the keys, unless they are there;
\* its result is not looked at.
InitValidator ==
  /\ at = "init"
  /\ tool # "none"
  /\ LET d == dirs[hash]
         keys == IF d.keys = "none" THEN tool ELSE d.keys
     IN  \/ /\ dirs' = [dirs EXCEPT ![hash] = [d EXCEPT !.toml = TRUE, !.keys = keys]]
            /\ UNCHANGED badInit
         \/ /\ \E toml \in {d.toml, TRUE} :
                 dirs' = [dirs EXCEPT ![hash] = [d EXCEPT !.toml = toml]]
            /\ badInit' = badInit \cup {hash}
  /\ at' = "toml"
  /\ UNCHANGED <<env, envVars, held, hash, exit, unended>>

\* Variant: its result is not looked at either.
EditTomlUnchecked ==
  /\ at = "toml"
  /\ Fill([dirs[hash] EXCEPT !.edited = dirs[hash].toml], "tags")

\* sed fails without a config.toml.
EditToml ==
  /\ at = "toml"
  /\ dirs[hash].toml
  /\ Fill([dirs[hash] EXCEPT !.edited = TRUE], "tags")

\* The index tags are added if they are not there.
AddTags ==
  /\ at = "tags"
  /\ Fill([dirs[hash] EXCEPT !.tags = IF @ = 0 THEN 1 ELSE @], "conf")

CopyRedisConf ==
  /\ at = "conf"
  /\ Fill([dirs[hash] EXCEPT !.conf = TRUE, !.modules = modules, !.port = FALSE], "port")

SetPort ==
  /\ at = "port"
  /\ Fill([dirs[hash] EXCEPT !.port = TRUE], "update")

UpdateEnvfile ==
  /\ at = "update"
  /\ Truncate(WithGenerated(env))
  /\ unended' = (unended \/ ~ env.ended)
  /\ at' = "updating"
  /\ UNCHANGED <<envVars, hash, dirs, exit, badInit>>

\* What was filled is in the home directory of the user, and called after the
\* hash; what is written to .env is in /root, and with use_docker it is called
\* tastebot, where the container has the filled directory as a volume.
Return ==
  /\ at = "updating"
  /\ env' = held
  /\ \E use_docker \in BOOLEAN :
       target' = [home |-> RootHome, name |-> IF use_docker THEN Shared ELSE hash]
  /\ volume' = hash
  /\ exit' = "ok"
  /\ at' = "none"
  /\ UNCHANGED <<held, hash, dirs, unended, badInit>>

ConfigStep ==
  /\ command = "configure"
  /\ \/ RecreateEnvfile \/ MakeRoot \/ ReadConfig \/ InitValidator \/ EditToml
     \/ AddTags \/ CopyRedisConf \/ SetPort \/ UpdateEnvfile \/ Return
  /\ command' = IF at' = "none" THEN "none" ELSE command
  /\ UNCHANGED <<runs, buildVars, home, edits, cuts>>

\* What fails with False instead of an exception.
Refused == {"toml", "tags", "port"}

\* A step fails or the user stops the command: what is done stays as it is.
ConfigFails ==
  /\ command = "configure"
  /\ cuts' = IF at \in {"recreating", "updating"} THEN cuts + 1 ELSE cuts
  /\ exit' \in {"error"} \cup (IF at \in Refused THEN {"ok"} ELSE {})
  /\ at' = "none"
  /\ command' = "none"
  /\ UNCHANGED <<runs, buildVars, home, env, envVars, held, hash, dirs, edits, unended,
                 badInit>>

-----------------------------------------------------------------------------
Next ==
  \/ Build /\ UNCHANGED configVars
  \/ EditEnv
  \/ \E args \in Arguments : RunConfig(args)
  \/ ConfigStep
  \/ ConfigFails

Spec == ConfigInit /\ [][Next]_vars

-----------------------------------------------------------------------------
(* Properties.                                                             *)

Dir == [toml : BOOLEAN, edited : BOOLEAN, tags : Nat, keys : Product, conf : BOOLEAN,
        modules : Nat, port : BOOLEAN]

\* Every variable keeps its type; in particular, the .env file names nothing
\* twice, however often it is rewritten, and tendermint init has run in root
\* directories only.
TypeOK ==
  /\ BuildTypeOK
  /\ command \in {"none", "build", "configure"}
  /\ home \in Home
  /\ {env, volume, held, hash} \subseteq Text
  /\ target \in [home : {RootHome}, name : Text \cup {Shared}]
  /\ at \in {"none", "recreate", "recreating", "config", "init", "toml", "tags", "conf", "port",
            "update", "updating"}
  /\ (command = "configure") <=> (at # "none")
  /\ DOMAIN dirs \subseteq Text
  /\ \A t \in DOMAIN dirs : dirs[t] \in Dir
  /\ exit \in {"none", "ok", "error"}
  /\ edits \in 0..MaxEdits
  /\ cuts \in 0..MaxRuns
  /\ unended \in BOOLEAN
  /\ badInit \subseteq DOMAIN dirs

AllGenerated == \A name \in ToSet(Generated) : Alone(name)

\* Nothing is added twice by a second build or a second configure, after
\* whatever failed: neither the module to redis.conf, which is appended to
\* with no look at what is there, nor the index tags to config.toml.
RerunsAddNothing ==
  /\ modules <= 1
  /\ \A t \in DOMAIN dirs : dirs[t].tags <= 1 /\ dirs[t].modules <= 1

\* Configuring again does not leave the keys of the validator behind in
\* another directory: a new root directory needs a new text of .env by the
\* user.
SameRoot ==
  ~ unended => Cardinality(DOMAIN dirs) <= 1 + edits

\* The directory the client finds: in the container it is the volume mounted.
InContainer == target.name = Shared
Found == IF InContainer THEN [home |-> home, name |-> volume] ELSE target

\* A .env file with all the generated lines leads to a directory that is filled,
\* for root and in a container: config.toml has been edited and tagged,
\* redis.conf is there with its port, and there are keys unless tendermint init
\* failed.  (For another user without a container it names a directory of /root
\* nobody filled.)
EnvNamesConfigured ==
  AllGenerated /\ (home = RootHome \/ InContainer) =>
    /\ Found.home = home /\ Found.name \in DOMAIN dirs
    /\ LET d == dirs[Found.name] IN
         /\ d.edited /\ d.tags = 1 /\ d.conf /\ d.port
         /\ d.keys # "none" \/ Found.name \in badInit

\* What the user keeps in .env stays readable while its lines are taken out
\* and added again, unless a rewrite is cut short or the file did not end
\* with a newline.
SettingsKept ==
  cuts = 0 /\ ~ unended /\ at \notin {"recreating", "updating"}
    => \A s \in Setting : Alone(s)

\* README.md has the reader run tastebot-configure between the build and the
\* first server: one that ends well leaves the directories in .env.
ConfigureConfigures == exit = "ok" => AllGenerated
=============================================================================
