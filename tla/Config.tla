-------------------------------- MODULE Config --------------------------------
(***************************************************************************)
(* Which group a session joins (shared/config.ts), and how a Deck pins its *)
(* terminals to a group of their own (scope.ts, index.ts, cli-context.ts,  *)
(* launch.js): project files, the user's configuration, the environment a  *)
(* process inherits, and the files that carry a Deck's secret.  Also which *)
(* broker a session and a Deck talk to (config.ts, broker-client.ts).      *)
(*                                                                         *)
(* Directories are the ancestors of the one everything runs in, 0 being    *)
(* the root of the file system.  A variable that is unset and one that is  *)
(* empty are both Null: every reader treats them alike.                    *)
(***************************************************************************)
EXTENDS Naturals, FiniteSets

CONSTANTS
  Decks, Terminals,
  Depth,        \* of the directory everything runs in
  GitRoots,     \* what git may answer: a directory, or Null
  GroupNames, DefaultName, ForcedName, \* names of groups; ForcedName is Scope.name, the
                \* host's and the directory's, and may be that of a group the user has
  GroupSecrets, Custom, \* secrets in the user's configuration; scope ids
  UserConfigs,  \* what config.json may say
  EnvGroups,    \* what CLAUDE_PEERS_GROUP may be
  Ports, Urls, Tokens, \* settings of a broker; the urls include Empty
  DefaultPort, Empty,  \* 7899 and ""
  Null, NoFile, BadFile,
  Remember,     \* rememberScopeSecrets is set and the OS can encrypt
  MaxScopes, MaxEdits \* bounds: scopes, edits of project files

Dirs == 0 .. Depth
Kinds == {"local", "shared"}
\* An ephemeral secret is the number of the scope it was minted for, which also names
\* the temporary file of that scope.
Ephemeral == 1 .. MaxScopes
Secrets == GroupSecrets \cup Custom \cup Ephemeral

\* what config.json, or CLAUDE_PEERS_PORT, _BROKER_URL and _BROKER_TOKEN, say of the broker
BrokerSettings == [port : Ports \cup {Null}, broker_url : Urls \cup {Null},
                   broker_token : Tokens \cup {Null}]

ASSUME ConfigAssumption ==
  /\ Depth \in Nat /\ MaxScopes \in Nat /\ MaxEdits \in Nat /\ Remember \in BOOLEAN
  /\ Null \in GitRoots /\ GitRoots \subseteq Dirs \cup {Null}
  /\ Null \in EnvGroups /\ EnvGroups \subseteq GroupNames \cup {Null}
  /\ UserConfigs \subseteq [groups : [GroupNames -> GroupSecrets \cup {Null}],
                            default_group : GroupNames \cup {Null}, broker : BrokerSettings]
  /\ Null \notin Ports /\ Null \notin Urls /\ Null \notin Tokens /\ Empty \in Urls
  /\ Null \notin GroupNames \cup {DefaultName, ForcedName} \cup Secrets \cup Dirs \cup Decks
  /\ {NoFile, BadFile} \cap GroupNames = {}
  /\ GroupSecrets \cap Custom = {} /\ (GroupSecrets \cup Custom) \cap Ephemeral = {}

VARIABLES
  project,     \* .claude-peers.local.json and .claude-peers.json in each directory
  userConfig, envGroup, gitRoot, edits,
  disk,        \* the secret in each temporary file
  remembered,  \* scope secrets stored with the OS
  decks, procs, \* Decks, and sessions with their MCP servers
  nextScope,
  orphans      \* history: files of Decks that crashed

surroundings == <<project, userConfig, envGroup, gitRoot, edits>>
vars == <<surroundings, disk, remembered, decks, procs, nextScope, orphans>>

Env == [force : Secrets \cup {Null}, file : Ephemeral \cup {Null}, scopeId : Custom \cup {Null}]
PlainEnv == [force |-> Null, file |-> Null, scopeId |-> Null]

\* The broker's "default" group, or the hash of a secret.
computeGroupId(secret) == IF secret = Null THEN DefaultName ELSE <<"sha256", secret>>
GroupIds == {computeGroupId(s) : s \in Secrets \cup {Null}}

-----------------------------------------------------------------------------
(* Resolution (config.ts) *)

Dirname(d) == IF d = 0 THEN 0 ELSE d - 1

\* The directory that a search upwards from cwd ends in with a file, when GoesOn says
\* whether it goes on from one to the next.
Found(kind, cwd, GoesOn(_)) ==
  LET looked == {d \in 0 .. cwd : \A e \in d + 1 .. cwd : GoesOn(e)}
      found == {d \in looked : project[kind][d] # NoFile}
  IN IF found = {} THEN Null ELSE CHOOSE d \in found : TRUE

\* Mutant of FindUpwards: stops at the root of the repository before it looks there.
FindUpwardsShort(kind, cwd, root) ==
  LET GoesOn(d) == project[kind][d] = NoFile /\ Dirname(d) \notin {root, d}
  IN Found(kind, cwd, GoesOn)

\* With the root of a repository at "/", whose parent is "/" again, the file there is
\* only found from "/" itself.
FindUpwards(kind, cwd, root) ==
  LET stopAt == IF root = Null THEN Null ELSE Dirname(root)
      GoesOn(d) == project[kind][d] = NoFile /\ d # root /\ Dirname(d) \notin {stopAt, d}
  IN Found(kind, cwd, GoesOn)

\* A file that cannot be used hides those above it, and the next source is asked.
NameInFiles(kind, cwd, root) ==
  LET d == FindUpwards(kind, cwd, root)
  IN IF d = Null \/ project[kind][d] = BadFile THEN Null ELSE project[kind][d]

resolveForcedGroupSecret(env) ==
  IF env.force # Null THEN env.force
  ELSE IF env.file # Null THEN disk[env.file] ELSE Null

Or(a, b) == IF a # Null THEN a ELSE b
resolveGroupName(cwd, root) ==
  Or(NameInFiles("local", cwd, root),
     Or(NameInFiles("shared", cwd, root),
        Or(userConfig.default_group, Or(envGroup, DefaultName))))

\* Mutant of resolveGroupSecret: a group without a secret is entered by its name.
resolveGroupSecretByName(name, config) ==
  IF name = DefaultName THEN Null ELSE Or(config.groups[name], name)
resolveGroupSecret(name, config) == IF name = DefaultName THEN Null ELSE config.groups[name]

\* The group of a process, and the secret that forced it.
resolveGroup(env) ==
  LET forced == resolveForcedGroupSecret(env)
  IN IF forced # Null THEN computeGroupId(forced)
     ELSE computeGroupId(resolveGroupSecret(resolveGroupName(Depth, gitRoot), userConfig))

\* buildGroupsMap
NamedGroups(config) == {n \in GroupNames : config.groups[n] # Null}
MapOf(config, names) ==
  [n \in {DefaultName} \cup NamedGroups(config) \cup names |->
     IF n \in NamedGroups(config) THEN computeGroupId(config.groups[n]) ELSE DefaultName]

\* Mutant of GroupsMap: leaves the forced group out.
GroupsMapPlain(config, forced) == MapOf(config, {})

\* groups_map of resolveGroup: the forced group takes its name from any other.
GroupsMap(config, forced) ==
  IF forced = Null THEN MapOf(config, {})
  ELSE [MapOf(config, {ForcedName}) EXCEPT ![ForcedName] = computeGroupId(forced)]

\* It answers with the first of these names; Null is "<unknown>".
groupNameForId(map, id) ==
  LET names == {n \in DOMAIN map : map[n] = id}
  IN IF names # {} THEN names ELSE IF id = DefaultName THEN {DefaultName} ELSE {Null}

\* loadConfig, of the broker's settings
LoadConfig(env, file) ==
  [port |-> Or(env.port, Or(file.port, DefaultPort)),
   broker_url |-> Or(env.broker_url, file.broker_url),
   broker_token |-> Or(env.broker_token, file.broker_token)]

Loopback(port) == <<"http://127.0.0.1", port>>
brokerUrl(config) ==
  IF config.broker_url \in {Null, Empty} THEN Loopback(config.port) ELSE config.broker_url
SessionEndpoint(env, file) ==
  LET config == LoadConfig(env, file)
  IN [url |-> brokerUrl(config), token |-> config.broker_token]

\* Mutant: the file comes first.
resolveBrokerEndpointFile(env, file) ==
  [url |-> Or(file.broker_url, Or(env.broker_url, Loopback(Or(env.port, Or(file.port, DefaultPort))))),
   token |-> Or(file.broker_token, env.broker_token)]

\* The Deck's copy of it, made at every announcement; an empty url stays as it is.
resolveBrokerEndpoint(env, file) ==
  [url |-> Or(env.broker_url, Or(file.broker_url, Loopback(Or(env.port, Or(file.port, DefaultPort))))),
   token |-> Or(env.broker_token, file.broker_token)]

-----------------------------------------------------------------------------
(* Decks (scope.ts, index.ts) *)

\* Mutant of ChildEnv: leaves the transport it does not use as it was inherited.
ChildEnvInherited(k) ==
  [k.env EXCEPT !.force = IF k.file = Null THEN k.scope ELSE @,
                !.file = IF k.file = Null THEN @ ELSE k.file]

ChildEnv(k) == [k.env EXCEPT !.force = IF k.file = Null THEN k.scope ELSE Null, !.file = k.file]

Down == [up |-> FALSE, env |-> PlainEnv, scope |-> Null, file |-> Null]
Deck == [up : BOOLEAN, env : Env, scope : Secrets \cup {Null}, file : Ephemeral \cup {Null}]

Absent == [is |-> "absent"]
Starting == [is : {"starting"}, deck : Decks \cup {Null}, env : Env]
Server == [is : {"serving"}, deck : Decks \cup {Null}, env : Env,
           config : UserConfigs, forced : Secrets \cup {Null}, \* what it read at its start
           home : GroupIds, group : GroupIds]

TilesOf(d) == {t \in Terminals : procs[t].is # "absent" /\ procs[t].deck = d}
Serving == {t \in Terminals : procs[t].is = "serving"}
\* Bound: sessions that no Deck has started have no part in what Decks do, so many layouts
\* of the project and such sessions are looked at, and then Decks in an empty project.
BeforeDecks == nextScope = 1
OnlyTiles == edits = 0 /\ \A t \in Terminals : procs[t] # Absent => procs[t].deck # Null

\* ScopeEnv.cleanup
Cleaned(k) == IF k.file = Null THEN disk ELSE [disk EXCEPT ![k.file] = Null]
\* Mutant of Replaced: the file of the scope that is given up stays.
ReplacedKept(k) == disk
\* What adoptScope removes before it builds the next environment.
Replaced(k) == Cleaned(k)

\* Mutant of FreeToAdopt: a Deck with sessions changes its scope, too.
FreeToAdoptAlways(d) == TRUE
FreeToAdopt(d) == TilesOf(d) = {}

\* buildScopeEnv: by file, or by the environment if no file can be written.
SetScope(d, kept, k, files) ==
  \E byFile \in BOOLEAN :
    /\ nextScope <= MaxScopes /\ nextScope' = nextScope + 1
    /\ decks' = [decks EXCEPT ![d] = [k EXCEPT !.file = IF byFile THEN nextScope ELSE Null]]
    /\ disk' = IF byFile THEN [files EXCEPT ![nextScope] = k.scope] ELSE files
    /\ remembered' = remembered \cup kept

\* The secret of a scope of that name, stored with the OS when a Deck was launched in it.
rememberScopeSecret(scopeId) == IF Remember THEN {scopeId} \ {Null} ELSE {}
recallScopeSecret(ws) == IF Remember /\ ws \in remembered THEN ws ELSE Null

\* A workspace of an ephemeral scope, or of a custom one that is not the current one, is
\* restored in a fresh scope, unless its secret can be recalled.
resolveAdoptedScope(ws, current) == IF ws # Null /\ ws = current THEN current ELSE nextScope

\* launch.js hands down the environment it was given and adds the scope id of its
\* argument, if any; the Deck takes the id from there.
CliContext(env, arg) == [env EXCEPT !.scopeId = Or(arg, @)]

\* Somebody runs claude-peers-desk, in a shell of his own or in a session's.
LaunchDeck(d) ==
  \E env \in {PlainEnv} \cup {procs[t].env : t \in Serving}, arg \in Custom \cup {Null} :
    LET own == CliContext(env, arg) IN
    /\ ~decks[d].up /\ OnlyTiles
    /\ SetScope(d, rememberScopeSecret(own.scopeId),
                [up |-> TRUE, env |-> own, scope |-> Or(own.scopeId, nextScope), file |-> Null], disk)
    /\ UNCHANGED <<surroundings, procs, orphans>>

\* adoptScope, at a restore
AdoptScope(d) ==
  \E ws \in Custom \cup {Null} :
    LET k == decks[d]
        own == resolveAdoptedScope(ws, k.scope)
        next == IF own = ws THEN own ELSE Or(recallScopeSecret(ws), own)
    IN /\ k.up /\ FreeToAdopt(d) /\ next # k.scope
       /\ SetScope(d, {}, [k EXCEPT !.scope = next], Replaced(k))
       /\ UNCHANGED <<surroundings, procs, orphans>>

Killed(d) == [t \in Terminals |-> IF t \in TilesOf(d) THEN Absent ELSE procs[t]]

\* before-quit
QuitDeck(d) ==
  /\ decks[d].up
  /\ decks' = [decks EXCEPT ![d] = Down] /\ procs' = Killed(d) /\ disk' = Cleaned(decks[d])
  /\ UNCHANGED <<surroundings, remembered, nextScope, orphans>>

\* A Deck that crashes takes its terminals with it and leaves its file.
CrashDeck(d) ==
  /\ decks[d].up
  /\ decks' = [decks EXCEPT ![d] = Down] /\ procs' = Killed(d)
  /\ orphans' = orphans \cup ({decks[d].file} \ {Null})
  /\ UNCHANGED <<surroundings, remembered, nextScope, disk>>

-----------------------------------------------------------------------------
(* Sessions (pty-manager.ts, server.ts) *)

Launched(deck, env) == [is |-> "starting", deck |-> deck, env |-> env]

LaunchTile(d, t) ==
  /\ decks[d].up /\ procs[t] = Absent
  /\ procs' = [procs EXCEPT ![t] = Launched(d, ChildEnv(decks[d]))]
  /\ UNCHANGED <<surroundings, disk, remembered, decks, nextScope, orphans>>

\* Bound: one such session at a time, as they have no part in each other, either.
LaunchShell(t) ==
  /\ BeforeDecks /\ \A u \in Terminals : procs[u] = Absent
  /\ procs' = [procs EXCEPT ![t] = Launched(Null, PlainEnv)]
  /\ UNCHANGED <<surroundings, disk, remembered, decks, nextScope, orphans>>

\* main reads the configuration and resolves the group, once.
StartServer(t) ==
  /\ procs[t].is = "starting"
  /\ LET p == procs[t] IN
     procs' = [procs EXCEPT ![t] =
       [is |-> "serving", deck |-> p.deck, env |-> p.env,
        config |-> userConfig, forced |-> resolveForcedGroupSecret(p.env),
        home |-> resolveGroup(p.env), group |-> resolveGroup(p.env)]]
  /\ UNCHANGED <<surroundings, disk, remembered, decks, nextScope, orphans>>

\* switch_group looks the name up in the configuration of the start.
SwitchGroup(t) ==
  /\ procs[t].is = "serving"
  /\ \E name \in {DefaultName} \cup {n \in GroupNames : procs[t].config.groups[n] # Null} :
       procs' = [procs EXCEPT ![t].group =
                   computeGroupId(resolveGroupSecret(name, procs[t].config))]
  /\ UNCHANGED <<surroundings, disk, remembered, decks, nextScope, orphans>>

\* A tile is closed, or a session ends.
End(t) ==
  /\ procs[t] # Absent
  /\ procs' = [procs EXCEPT ![t] = Absent]
  /\ UNCHANGED <<surroundings, disk, remembered, decks, nextScope, orphans>>

-----------------------------------------------------------------------------
(* The user and the operating system *)

EditProject(kind, d) ==
  /\ BeforeDecks /\ edits < MaxEdits /\ edits' = edits + 1
  /\ \E content \in GroupNames \cup {NoFile, BadFile} :
       /\ content # project[kind][d]
       /\ project' = [project EXCEPT ![kind][d] = content]
  /\ UNCHANGED <<userConfig, envGroup, gitRoot, disk, remembered, decks, procs, nextScope, orphans>>

\* The project becomes a repository, or no longer is one; the login environment changes.
EditSetting ==
  /\ BeforeDecks /\ edits < MaxEdits /\ edits' = edits + 1
  /\ \/ gitRoot' \in GitRoots \ {gitRoot} /\ UNCHANGED envGroup
     \/ envGroup' \in EnvGroups \ {envGroup} /\ UNCHANGED gitRoot
  /\ UNCHANGED <<project, userConfig, disk, remembered, decks, procs, nextScope, orphans>>

EditConfig ==
  /\ userConfig' \in UserConfigs \ {userConfig}
  /\ UNCHANGED <<project, edits, envGroup, gitRoot, disk, remembered, decks, procs, nextScope, orphans>>

\* The system cleans the temporary directory under a Deck that has long been running.
\* (What crashed Decks left may go or stay: nobody reads it.)
Reap(n) ==
  /\ disk[n] # Null /\ n \notin orphans
  /\ disk' = [disk EXCEPT ![n] = Null]
  /\ UNCHANGED <<surroundings, remembered, decks, procs, nextScope, orphans>>

Init ==
  /\ project = [kind \in Kinds |-> [d \in Dirs |-> NoFile]]
  /\ userConfig \in UserConfigs /\ envGroup = Null /\ gitRoot = Null
  /\ edits = 0 /\ nextScope = 1 /\ remembered = {} /\ orphans = {}
  /\ disk = [n \in Ephemeral |-> Null]
  /\ decks = [d \in Decks |-> Down] /\ procs = [t \in Terminals |-> Absent]

Next ==
  \/ \E d \in Decks : LaunchDeck(d) \/ AdoptScope(d) \/ QuitDeck(d) \/ CrashDeck(d)
  \/ \E d \in Decks, t \in Terminals : LaunchTile(d, t)
  \/ \E t \in Terminals : LaunchShell(t) \/ StartServer(t) \/ SwitchGroup(t) \/ End(t)
  \/ \E kind \in Kinds, d \in Dirs : EditProject(kind, d)
  \/ EditSetting \/ EditConfig
  \/ \E n \in Ephemeral : Reap(n)

Spec == Init /\ [][Next]_vars

-----------------------------------------------------------------------------
(* Properties *)

\* Environments, files, Decks and processes are what the code can make of them.
TypeOK ==
  /\ project \in [Kinds -> [Dirs -> GroupNames \cup {NoFile, BadFile}]]
  /\ userConfig \in UserConfigs /\ envGroup \in EnvGroups /\ gitRoot \in GitRoots
  /\ disk \in [Ephemeral -> Secrets \cup {Null}] /\ remembered \subseteq Custom
  /\ orphans \subseteq Ephemeral
  /\ decks \in [Decks -> Deck]
  /\ procs \in [Terminals -> {Absent} \cup Starting \cup Server]
  /\ nextScope \in 1 .. MaxScopes + 1 /\ edits \in 0 .. MaxEdits

\* The directories README.md:211-212 names: from the current one up to the git root.
Searched(cwd) == {d \in 0 .. cwd : gitRoot # Null => d >= gitRoot}
Nearest(kind, cwd) ==
  LET found == {d \in Searched(cwd) : project[kind][d] # NoFile}
  IN {project[kind][d] : d \in {x \in found : \A y \in found : y <= x}} \ {BadFile}
Documented(cwd) ==
  LET sources == <<Nearest("local", cwd), Nearest("shared", cwd),
                   {userConfig.default_group} \ {Null}, {envGroup} \ {Null}, {DefaultName}>>
      first == CHOOSE i \in DOMAIN sources :
                 sources[i] # {} /\ \A j \in 1 .. i - 1 : sources[j] = {}
  IN sources[first]

\* From every directory of a project that is not the file system itself, the group that
\* resolveGroupName walks and falls through to is that of the nearest file of the first
\* source that has one, and no file above the repository is ever used (README.md:209-217).
ResolvesAsDocumented ==
  \A cwd \in Dirs : (gitRoot = Null \/ gitRoot \in 1 .. cwd) =>
    {resolveGroupName(cwd, gitRoot)} = Documented(cwd)

\* All sessions of a Deck were started in its scope, however it was launched and whatever
\* its environment carried, through every restore and restart; only a session whose secret
\* file the system removed before the session started is elsewhere (scope.ts:1-10).
TilesInScope ==
  \A d \in Decks : \A t \in TilesOf(d) \cap Serving :
    \/ procs[t].home = computeGroupId(decks[d].scope)
    \/ procs[t].forced = Null

\* The secrets on disk are those of scopes in use, apart from what crashes left: closing a
\* Deck and replacing its scope remove the file (index.ts:137, 264).
NoSecretLeftBehind ==
  \A n \in Ephemeral : disk[n] # Null => n \in orphans \/ \E d \in Decks : decks[d].file = n

\* The session has switched to a group of the user's that is named like its Deck's scope.
Displaced(p) ==
  /\ p.forced # Null /\ ForcedName \in NamedGroups(p.config)
  /\ p.group = computeGroupId(p.config.groups[ForcedName])

\* A session can name the group it is in, after any number of switches and whatever became
\* of the configuration meanwhile, and so names the group its Deck forced it into; only a
\* group whose name "Forced wins" has taken away may be unknown (server.ts:201-206,
\* config.ts:415-418).
CurrentIsListed ==
  \A t \in Serving :
    LET p == procs[t]
    IN Null \in groupNameForId(GroupsMap(p.config, p.forced), p.group) =>
         Displaced(p) /\ p.group # computeGroupId(p.forced)

\* A Deck announces to the broker that its sessions are registered with, whatever of it is
\* set where, so long as config.json has not been edited since they started
\* (broker-client.ts:9-12); except with an empty url, which only the sessions ignore.
AnnouncesReachBroker ==
  \A t \in Serving : procs[t].deck # Null /\ procs[t].config = userConfig =>
    \A env \in BrokerSettings :
      \/ resolveBrokerEndpoint(env, userConfig.broker) = SessionEndpoint(env, procs[t].config.broker)
      \/ Or(env.broker_url, userConfig.broker.broker_url) = Empty
=============================================================================
