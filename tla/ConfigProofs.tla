----------------------------- MODULE ConfigProofs -----------------------------
(***************************************************************************)
(* Sessions join the group they are meant to: the theorems behind Config.  *)
(* What the resolution of a group yields comes first, for every depth of   *)
(* the project and every place of its files; then that a Deck's sessions   *)
(* are in its scope, for any number of Decks, terminals and restores.      *)
(***************************************************************************)
EXTENDS Config, FiniteSetTheorems, TLAPS

-----------------------------------------------------------------------------
(* The inductive invariant *)

\* A Deck that is down holds nothing; one that is up has a scope, and the file it hands
\* down, if any, is of a number already given out and holds its secret unless the system
\* has removed it.
DecksSound ==
  \A d \in Decks : LET k == decks[d] IN
    /\ ~k.up => k = Down
    /\ k.up => k.scope \in Secrets
    /\ k.file # Null => k.file < nextScope /\ disk[k.file] \in {k.scope, Null}

\* A session of a Deck has the environment its Deck gives to its terminals today, and was
\* forced, if at all, into the scope its Deck has today.
TilesSound ==
  \A d \in Decks : \A t \in TilesOf(d) : LET p == procs[t] k == decks[d] IN
    /\ k.up /\ p.env = ChildEnv(k)
    /\ p.is = "serving" => p.forced \in {Null, k.scope}
    /\ p.is = "serving" /\ p.forced # Null => p.home = computeGroupId(p.forced)

\* What CurrentIsListed says of one session.
Nameable(p) ==
  Null \in groupNameForId(GroupsMap(p.config, p.forced), p.group) =>
    Displaced(p) /\ p.group # computeGroupId(p.forced)

Inv == TypeOK /\ DecksSound /\ TilesSound /\ NoSecretLeftBehind /\ CurrentIsListed
-----------------------------------------------------------------------------
(* The group that a directory names *)

\* A set of directories of the project that is not empty has one that is nearest.
LEMMA NearestExists ==
  ASSUME NEW cwd \in Nat, NEW S, S \subseteq 0 .. cwd, S # {}
  PROVE  \E x \in S : \A y \in S : y <= x
  <1> DEFINE farther(d) == 0 .. d
             nearer == {(0 .. cwd) \ farther(d) : d \in S}
  <1>1. IsFiniteSet(0 .. cwd)
    BY FS_Interval
  <1>2. nearer \subseteq FiniteSubsetsOf(0 .. cwd)
    <2>1. nearer \subseteq SUBSET (0 .. cwd)
      OBVIOUS
    <2> QED BY <1>1, <2>1, FS_FiniteSubsetsOfFinite
  <1>3. PICK U \in nearer : \A V \in nearer : ~ (<<V, U>> \in StrictSubsetOrdering(0 .. cwd))
    <2>1. nearer # {}
      OBVIOUS
    <2> HIDE DEF nearer
    <2> QED BY <1>2, <2>1, FS_StrictSubsetOrderingWellFounded, WFMin
  <1>4. PICK x \in S : U = (0 .. cwd) \ farther(x)
    OBVIOUS
  <1>5. ASSUME NEW y \in S, y > x PROVE FALSE
    <2> DEFINE V == (0 .. cwd) \ farther(y)
    <2>1. V \subseteq U
      BY <1>4, <1>5
    <2>2. y \in U /\ y \notin V
      BY <1>4, <1>5
    <2>3. V \in nearer /\ U \in SUBSET (0 .. cwd) /\ V \in SUBSET (0 .. cwd)
      BY <1>4
    <2>4. <<V, U>> \notin StrictSubsetOrdering(0 .. cwd)
      BY <1>3, <2>3
    <2> HIDE DEF V
    <2> QED BY <2>1, <2>2, <2>3, <2>4 DEF StrictSubsetOrdering
  <1> QED BY <1>5

\* Inside a repository that is not the file system itself, or outside any, the search
\* goes on exactly past the directories without a file, up to the root of the repository.
LEMMA GoesOnToTheRoot ==
  ASSUME ConfigAssumption, NEW cwd \in Dirs, NEW root \in Dirs \cup {Null},
         root = Null \/ root \in 1 .. cwd, NEW e \in 1 .. cwd
  PROVE  e # root /\ Dirname(e) \notin {IF root = Null THEN Null ELSE Dirname(root), e}
         <=> e # root
  <1>1. e \in Nat /\ e > 0 /\ Dirname(e) = e - 1 /\ e - 1 \in Dirs
    BY DEF ConfigAssumption, Dirs, Dirname
  <1>2. CASE root = Null
    BY <1>1, <1>2 DEF ConfigAssumption
  <1>3. CASE root # Null
    <2>1. root \in Nat /\ root > 0 /\ Dirname(root) = root - 1
      BY <1>3 DEF ConfigAssumption, Dirs, Dirname
    <2> QED BY <1>1, <1>3, <2>1
  <1> QED BY <1>2, <1>3

\* The walk ends in the nearest file of that kind within the repository, if there is one.
LEMMA FindsNearest ==
  ASSUME ConfigAssumption, TypeOK, NEW kind \in Kinds, NEW cwd \in Dirs,
         gitRoot = Null \/ gitRoot \in 1 .. cwd
  PROVE  LET found == {d \in Searched(cwd) : project[kind][d] # NoFile}
             d == FindUpwards(kind, cwd, gitRoot)
         IN IF found = {} THEN d = Null
            ELSE d \in found /\ \A y \in found : y <= d
  <1> DEFINE stopAt == IF gitRoot = Null THEN Null ELSE Dirname(gitRoot)
             GoesOn(d) == project[kind][d] = NoFile /\ d # gitRoot
                          /\ Dirname(d) \notin {stopAt, d}
             looked == {d \in 0 .. cwd : \A e \in d + 1 .. cwd : GoesOn(e)}
             reached == {d \in looked : project[kind][d] # NoFile}
             found == {d \in Searched(cwd) : project[kind][d] # NoFile}
             last(x) == x \in found /\ \A y \in found : y <= x
  <1>1. cwd \in Nat /\ gitRoot \in Dirs \cup {Null} /\ Null \notin Dirs
    BY DEF ConfigAssumption, TypeOK, Dirs
  <1>2. \A e \in 1 .. cwd : GoesOn(e) <=> project[kind][e] = NoFile /\ e # gitRoot
    BY GoesOnToTheRoot, <1>1
  <1>3. \A d \in reached : last(d)
    <2> SUFFICES ASSUME NEW d \in reached PROVE last(d)
      OBVIOUS
    <2>1. d \in 0 .. cwd /\ \A e \in d + 1 .. cwd : project[kind][e] = NoFile /\ e # gitRoot
      BY <1>1, <1>2
    <2>2. gitRoot # Null => gitRoot <= d
      BY <1>1, <2>1
    <2>3. \A y \in found : y <= d
      BY <1>1, <2>1 DEF Searched
    <2> QED BY <1>1, <2>1, <2>2, <2>3 DEF Searched
  <1>4. \A d : last(d) => d \in reached
    <2> SUFFICES ASSUME NEW d, last(d) PROVE d \in reached
      OBVIOUS
    <2>1. d \in 0 .. cwd /\ (gitRoot # Null => gitRoot <= d)
      BY DEF Searched
    <2>2. ASSUME NEW e \in d + 1 .. cwd PROVE project[kind][e] = NoFile /\ e # gitRoot
      <3>1. e \in 0 .. cwd /\ e > d /\ (gitRoot # Null => gitRoot < e)
        BY <1>1, <2>1, <2>2
      <3>2. e \notin found
        BY <1>1, <2>1, <3>1
      <3>3. e \in Searched(cwd)
        BY <1>1, <3>1 DEF Searched
      <3> QED BY <1>1, <3>1, <3>2, <3>3 DEF Dirs, ConfigAssumption
    <2>3. \A e \in d + 1 .. cwd : GoesOn(e)
      BY <1>1, <1>2, <2>1, <2>2
    <2> QED BY <2>1, <2>3
  <1>5. FindUpwards(kind, cwd, gitRoot)
          = IF reached = {} THEN Null ELSE CHOOSE d \in reached : TRUE
    BY DEF FindUpwards, Found
  <1>6. found # {} => \E d : last(d)
    <2>1. found \subseteq 0 .. cwd
      BY DEF Searched
    <2> HIDE DEF found
    <2> QED BY <1>1, <2>1, NearestExists
  <1> HIDE DEF reached, found
  <1> QED BY <1>3, <1>4, <1>5, <1>6 DEF found

\* Whatever git answers, a project names a group of its files or none.
LEMMA NameType ==
  ASSUME ConfigAssumption, TypeOK, NEW kind \in Kinds, NEW cwd \in Dirs, NEW root
  PROVE  NameInFiles(kind, cwd, root) \in GroupNames \cup {Null}
  <1> DEFINE d == FindUpwards(kind, cwd, root)
  <1>2. d # Null => d \in 0 .. cwd /\ project[kind][d] # NoFile
    BY DEF FindUpwards, Found
  <1>3. 0 .. cwd \subseteq Dirs
    BY DEF Dirs, ConfigAssumption
  <1>4. CASE d = Null \/ project[kind][d] = BadFile
    BY <1>4 DEF NameInFiles
  <1>5. CASE ~ (d = Null \/ project[kind][d] = BadFile)
    <2>1. NameInFiles(kind, cwd, root) = project[kind][d]
      BY <1>5 DEF NameInFiles
    <2>2. project[kind][d] \in GroupNames \cup {NoFile, BadFile}
      BY <1>2, <1>3, <1>5 DEF TypeOK
    <2> QED BY <1>2, <1>5, <2>1, <2>2
  <1> QED BY <1>4, <1>5

\* The name in a project's files is that of the nearest file of the kind, if it has one.
LEMMA NameIsNearest ==
  ASSUME ConfigAssumption, TypeOK, NEW kind \in Kinds, NEW cwd \in Dirs,
         gitRoot = Null \/ gitRoot \in 1 .. cwd
  PROVE  Nearest(kind, cwd) = {NameInFiles(kind, cwd, gitRoot)} \ {Null}
  <1> DEFINE found == {d \in Searched(cwd) : project[kind][d] # NoFile}
             d == FindUpwards(kind, cwd, gitRoot)
             last == {x \in found : \A y \in found : y <= x}
             name == NameInFiles(kind, cwd, gitRoot)
  <1>1. found \subseteq Nat /\ found \subseteq Dirs
    BY DEF Searched, Dirs, ConfigAssumption
  <1>2. IF found = {} THEN d = Null ELSE d \in found /\ \A y \in found : y <= d
    BY FindsNearest
  <1>3. Nearest(kind, cwd) = {project[kind][x] : x \in last} \ {BadFile}
    BY DEF Nearest
  <1>4. CASE found = {}
    <2>1. name = Null
      BY <1>2, <1>4 DEF NameInFiles
    <2> QED BY <1>3, <1>4, <2>1
  <1>5. CASE found # {}
    <2>1. d \in found /\ \A y \in found : y <= d
      BY <1>2, <1>5
    <2>2. last = {d}
      <3> HIDE DEF found, d
      <3>1. d \in last
        BY <2>1
      <3>2. \A x \in last : x \in Nat /\ d \in Nat /\ x <= d /\ d <= x
        BY <1>1, <2>1
      <3>3. \A x \in last : x = d
        BY <3>2
      <3> HIDE DEF last
      <3> QED BY <3>1, <3>3
    <2>3. d # Null
      BY <1>1, <2>1 DEF ConfigAssumption
    <2>4. Nearest(kind, cwd) = {project[kind][d]} \ {BadFile}
      BY <1>3, <2>2
    <2>5. name = IF project[kind][d] = BadFile THEN Null ELSE project[kind][d]
      BY <2>3 DEF NameInFiles
    <2>6. project[kind][d] # BadFile => project[kind][d] # Null
      <3>1. project[kind][d] \in GroupNames \cup {NoFile, BadFile} /\ project[kind][d] # NoFile
        BY <1>1, <2>1 DEF TypeOK
      <3> QED BY <3>1 DEF ConfigAssumption
    <2> HIDE DEF d, last, found
    <2> QED BY <2>4, <2>5, <2>6
  <1> QED BY <1>4, <1>5

\* From every directory of a project of any depth and any layout, the walk and the
\* fall-through of config.ts name the group that README.md:209-217 describes.
LEMMA ResolvesAsWritten ==
  ASSUME ConfigAssumption, TypeOK
  PROVE  ResolvesAsDocumented
  <1> SUFFICES ASSUME NEW cwd \in Dirs, gitRoot = Null \/ gitRoot \in 1 .. cwd
               PROVE  {resolveGroupName(cwd, gitRoot)} = Documented(cwd)
    BY DEF ResolvesAsDocumented
  <1> DEFINE local == NameInFiles("local", cwd, gitRoot)
             shared == NameInFiles("shared", cwd, gitRoot)
             own == userConfig.default_group
             sources == <<Nearest("local", cwd), Nearest("shared", cwd),
                          {own} \ {Null}, {envGroup} \ {Null}, {DefaultName}>>
             first(i) == sources[i] # {} /\ \A j \in 1 .. i - 1 : sources[j] = {}
  <1>1. DOMAIN sources = 1 .. 5
    OBVIOUS
  <1>2. /\ sources[1] = {local} \ {Null} /\ sources[2] = {shared} \ {Null}
        /\ sources[3] = {own} \ {Null} /\ sources[4] = {envGroup} \ {Null}
        /\ sources[5] = {DefaultName}
    BY NameIsNearest DEF Kinds
  <1>3. Documented(cwd) = sources[CHOOSE i \in DOMAIN sources : first(i)]
    BY DEF Documented
  <1>4. resolveGroupName(cwd, gitRoot) = Or(local, Or(shared, Or(own, Or(envGroup, DefaultName))))
    BY DEF resolveGroupName
  <1> HIDE DEF sources, local, shared, own
  <1>5. \A i, j \in 1 .. 5 : first(i) /\ first(j) => i = j
    <2> SUFFICES ASSUME NEW i \in 1 .. 5, NEW j \in 1 .. 5, first(i), first(j), i < j
                 PROVE  FALSE
      OBVIOUS
    <2> QED OBVIOUS
  <1>6. ASSUME NEW i \in 1 .. 5, first(i) PROVE Documented(cwd) = sources[i]
    BY <1>1, <1>3, <1>5, <1>6
  <1>7. CASE local # Null
    <2>1. first(1)
      BY <1>2, <1>7
    <2> QED BY <1>2, <1>4, <1>6, <1>7, <2>1 DEF Or
  <1>8. CASE local = Null /\ shared # Null
    <2>1. first(2)
      BY <1>2, <1>8
    <2> QED BY <1>2, <1>4, <1>6, <1>8, <2>1 DEF Or
  <1>9. CASE local = Null /\ shared = Null /\ own # Null
    <2>1. first(3)
      BY <1>2, <1>9
    <2> QED BY <1>2, <1>4, <1>6, <1>9, <2>1 DEF Or
  <1>10. CASE local = Null /\ shared = Null /\ own = Null /\ envGroup # Null
    <2>1. first(4)
      BY <1>2, <1>10
    <2> QED BY <1>2, <1>4, <1>6, <1>10, <2>1 DEF Or
  <1>11. CASE local = Null /\ shared = Null /\ own = Null /\ envGroup = Null
    <2>1. first(5)
      BY <1>2, <1>11
    <2> QED BY <1>2, <1>4, <1>6, <1>11, <2>1 DEF Or
  <1> QED BY <1>7, <1>8, <1>9, <1>10, <1>11

-----------------------------------------------------------------------------
(* Types *)

LEMMA EnvTypes == PlainEnv \in Env /\ \A k \in Deck : ChildEnv(k) \in Env
  BY DEF PlainEnv, Env, ChildEnv, Deck

LEMMA DownType == Down \in Deck /\ Down.up = FALSE /\ Down.file = Null
  BY EnvTypes DEF Down, Deck

\* What forces a process into a group is a secret, and its group is one of the groups.
LEMMA GroupTypes ==
  ASSUME ConfigAssumption, TypeOK, NEW env \in Env
  PROVE  /\ resolveForcedGroupSecret(env) \in Secrets \cup {Null}
         /\ resolveGroupName(Depth, gitRoot) \in GroupNames \cup {DefaultName}
         /\ resolveGroup(env) \in GroupIds
  <1>1. resolveForcedGroupSecret(env) \in Secrets \cup {Null}
    BY DEF resolveForcedGroupSecret, Env, TypeOK
  <1>2. resolveGroupName(Depth, gitRoot) \in GroupNames \cup {DefaultName}
    <2>1. \A kind \in Kinds : NameInFiles(kind, Depth, gitRoot) \in GroupNames \cup {Null}
      BY NameType DEF ConfigAssumption, Dirs
    <2>2. userConfig.default_group \in GroupNames \cup {Null} /\ envGroup \in GroupNames \cup {Null}
      BY DEF TypeOK, ConfigAssumption
    <2> QED BY <2>1, <2>2 DEF resolveGroupName, Or, Kinds
  <1>3. \A name \in GroupNames \cup {DefaultName} :
          resolveGroupSecret(name, userConfig) \in Secrets \cup {Null}
    BY DEF resolveGroupSecret, TypeOK, ConfigAssumption, Secrets
  <1> QED BY <1>1, <1>2, <1>3 DEF resolveGroup, GroupIds

\* A session that was forced into its group, and one that is in a group of its
\* configuration, can name it.
LEMMA ForcedIsNameable ==
  ASSUME ConfigAssumption, NEW p \in Server, p.forced # Null, p.group = computeGroupId(p.forced)
  PROVE  Nameable(p)
  <1> DEFINE map == GroupsMap(p.config, p.forced)
  <1>1. ForcedName \in DOMAIN map /\ map[ForcedName] = p.group
    BY DEF GroupsMap, MapOf
  <1>2. {n \in DOMAIN map : map[n] = p.group} # {} /\ Null \notin DOMAIN map
    BY <1>1 DEF GroupsMap, MapOf, NamedGroups, ConfigAssumption
  <1> HIDE DEF map
  <1> QED BY <1>2 DEF Nameable, groupNameForId, map

LEMMA ConfiguredIsNameable ==
  ASSUME ConfigAssumption, NEW p \in Server, NEW name \in GroupNames \cup {DefaultName},
         p.group = computeGroupId(resolveGroupSecret(name, p.config))
  PROVE  Nameable(p)
  <1> DEFINE map == GroupsMap(p.config, p.forced)
             secret == resolveGroupSecret(name, p.config)
             names == {n \in DOMAIN map : map[n] = p.group}
  <1>1. Null \notin DOMAIN map /\ Null # DefaultName
    BY DEF GroupsMap, MapOf, NamedGroups, ConfigAssumption
  <1>2. CASE names # {} \/ p.group = DefaultName
    <2> HIDE DEF map
    <2>1. Null \notin groupNameForId(map, p.group)
      BY <1>1, <1>2 DEF groupNameForId
    <2> QED BY <2>1 DEF Nameable, map
  <1>3. CASE names = {} /\ p.group # DefaultName
    <2>1. secret # Null
      BY <1>3 DEF computeGroupId
    <2>2. name \in NamedGroups(p.config) /\ p.group = computeGroupId(p.config.groups[name])
      BY <2>1 DEF resolveGroupSecret, NamedGroups
    <2>3. p.forced # Null /\ name = ForcedName
      <3>1. CASE p.forced = Null \/ name # ForcedName
        <4>1. name \in DOMAIN map /\ map[name] = p.group
          BY <2>2, <3>1 DEF GroupsMap, MapOf
        <4> QED BY <1>3, <4>1
      <3> QED BY <3>1
    <2>4. ForcedName \in DOMAIN map /\ map[ForcedName] = computeGroupId(p.forced)
      BY <2>3 DEF GroupsMap, MapOf
    <2>5. p.group # computeGroupId(p.forced)
      BY <1>3, <2>4
    <2> QED BY <2>2, <2>3, <2>5 DEF Nameable, Displaced
  <1> QED BY <1>2, <1>3

\* A Deck that takes a scope is again a Deck, with the file of that scope or none, and no
\* other file is written.
LEMMA ScopeSet ==
  ASSUME ConfigAssumption, TypeOK, NEW d \in Decks, NEW kept \in SUBSET Custom, NEW k \in Deck,
         NEW files \in [Ephemeral -> Secrets \cup {Null}], SetScope(d, kept, k, files)
  PROVE  \E file \in Ephemeral \cup {Null} :
           /\ nextScope \in Ephemeral /\ nextScope' = nextScope + 1
           /\ nextScope' \in 1 .. MaxScopes + 1
           /\ decks' = [decks EXCEPT ![d] = [k EXCEPT !.file = file]]
           /\ [k EXCEPT !.file = file] \in Deck
           /\ file \in {nextScope, Null}
           /\ disk' = IF file = Null THEN files ELSE [files EXCEPT ![file] = k.scope]
           /\ disk' \in [Ephemeral -> Secrets \cup {Null}] /\ decks' \in [Decks -> Deck]
           /\ remembered' = remembered \cup kept /\ remembered' \subseteq Custom
  <1>1. PICK byFile \in BOOLEAN :
          /\ nextScope <= MaxScopes /\ nextScope' = nextScope + 1
          /\ decks' = [decks EXCEPT ![d] = [k EXCEPT !.file = IF byFile THEN nextScope ELSE Null]]
          /\ disk' = IF byFile THEN [files EXCEPT ![nextScope] = k.scope] ELSE files
          /\ remembered' = remembered \cup kept
    BY DEF SetScope
  <1> DEFINE file == IF byFile THEN nextScope ELSE Null
  <1>2. nextScope \in Ephemeral /\ nextScope' \in 1 .. MaxScopes + 1 /\ Null \notin Ephemeral
    BY <1>1 DEF TypeOK, Ephemeral, ConfigAssumption, Secrets
  <1>3. [k EXCEPT !.file = file] \in Deck
    BY <1>2 DEF Deck
  <1>4. decks' \in [Decks -> Deck] /\ remembered' \subseteq Custom
    BY <1>1, <1>3 DEF TypeOK
  <1>5. disk' = IF file = Null THEN files ELSE [files EXCEPT ![file] = k.scope]
    BY <1>1, <1>2
  <1>6. disk' \in [Ephemeral -> Secrets \cup {Null}]
    BY <1>1, <1>2 DEF Deck
  <1> WITNESS file \in Ephemeral \cup {Null}
  <1> QED BY <1>1, <1>2, <1>3, <1>4, <1>5, <1>6

-----------------------------------------------------------------------------
(* The steps *)

LEMMA CleanedType ==
  ASSUME ConfigAssumption, TypeOK, NEW k \in Deck
  PROVE  /\ Cleaned(k) \in [Ephemeral -> Secrets \cup {Null}]
         /\ \A n \in Ephemeral : Cleaned(k)[n] = IF n = k.file THEN Null ELSE disk[n]
  <1>1. disk \in [Ephemeral -> Secrets \cup {Null}] /\ k.file \in Ephemeral \cup {Null}
    BY DEF TypeOK, Deck
  <1>2. Null \notin Ephemeral
    BY DEF ConfigAssumption, Secrets
  <1> QED BY <1>1, <1>2 DEF Cleaned

\* A Deck takes a scope when it has no sessions, and cleans up after the one it had.
LEMMA Rescoped ==
  ASSUME ConfigAssumption, Inv, NEW d \in Decks, LaunchDeck(d) \/ AdoptScope(d)
  PROVE  /\ TilesOf(d) = {}
         /\ UNCHANGED <<surroundings, procs, orphans>>
         /\ \E k \in Deck, kept \in SUBSET Custom :
              k.up /\ k.scope \in Secrets /\ SetScope(d, kept, k, Cleaned(decks[d]))
  <1> USE DEF Inv
  <1>1. CASE LaunchDeck(d)
    <2>1. PICK env \in {PlainEnv} \cup {procs[t].env : t \in Serving}, arg \in Custom \cup {Null} :
            LET own == CliContext(env, arg) IN
            /\ ~decks[d].up
            /\ SetScope(d, rememberScopeSecret(own.scopeId),
                        [up |-> TRUE, env |-> own, scope |-> Or(own.scopeId, nextScope),
                         file |-> Null], disk)
            /\ UNCHANGED <<surroundings, procs, orphans>>
      BY <1>1 DEF LaunchDeck
    <2> DEFINE own == CliContext(env, arg)
               kept == rememberScopeSecret(own.scopeId)
               k == [up |-> TRUE, env |-> own, scope |-> Or(own.scopeId, nextScope), file |-> Null]
    <2>2. env \in Env
      BY <2>1, EnvTypes DEF TypeOK, Serving, Absent, Starting, Server
    <2>3. own \in Env
      BY <2>2 DEF CliContext, Or, Env
    <2>4. nextScope \in Ephemeral
      BY <2>1 DEF SetScope, TypeOK, Ephemeral, ConfigAssumption
    <2>5. k.scope \in Secrets
      BY <2>3, <2>4 DEF Or, Env, Secrets
    <2>6. k \in Deck /\ k.up
      BY <2>3, <2>5 DEF Deck
    <2>7. kept \in SUBSET Custom
      BY <2>3 DEF rememberScopeSecret, Env
    <2>8. decks[d] = Down
      BY <2>1 DEF DecksSound
    <2>9. Cleaned(decks[d]) = disk
      BY <2>8 DEF Cleaned, Down
    <2>10. TilesOf(d) = {}
      BY <2>1 DEF TilesSound
    <2>11. SetScope(d, kept, k, Cleaned(decks[d]))
      BY <2>1, <2>9
    <2> HIDE DEF k, kept
    <2> QED BY <2>1, <2>5, <2>6, <2>7, <2>10, <2>11
  <1>2. CASE AdoptScope(d)
    <2> DEFINE current == decks[d]
    <2>1. PICK ws \in Custom \cup {Null} :
            LET own == resolveAdoptedScope(ws, current.scope)
                next == IF own = ws THEN own ELSE Or(recallScopeSecret(ws), own)
            IN /\ current.up /\ FreeToAdopt(d)
               /\ SetScope(d, {}, [current EXCEPT !.scope = next], Replaced(current))
               /\ UNCHANGED <<surroundings, procs, orphans>>
      BY <1>2 DEF AdoptScope
    <2> DEFINE own == resolveAdoptedScope(ws, current.scope)
               next == IF own = ws THEN own ELSE Or(recallScopeSecret(ws), own)
               k == [current EXCEPT !.scope = next]
    <2>2. current \in Deck /\ current.scope \in Secrets
      BY <2>1 DEF TypeOK, DecksSound
    <2>3. nextScope \in Ephemeral
      BY <2>1 DEF SetScope, TypeOK, Ephemeral, ConfigAssumption
    <2>4. own \in Secrets
      BY <2>2, <2>3 DEF resolveAdoptedScope, Secrets
    <2>5. next \in Secrets
      BY <2>1, <2>4 DEF recallScopeSecret, Or, Secrets
    <2>6. k \in Deck /\ k.up /\ k.scope \in Secrets
      <3> HIDE DEF next, current
      <3> QED BY <2>1, <2>2, <2>5 DEF Deck
    <2>7. SetScope(d, {}, k, Cleaned(current))
      BY <2>1 DEF Replaced
    <2>8. TilesOf(d) = {}
      BY <2>1 DEF FreeToAdopt
    <2> HIDE DEF k
    <2> QED BY <2>1, <2>6, <2>7, <2>8
  <1> QED BY <1>1, <1>2

LEMMA RescopeKeepsInv ==
  ASSUME ConfigAssumption, Inv, NEW d \in Decks, LaunchDeck(d) \/ AdoptScope(d)
  PROVE  Inv'
  <1> USE DEF Inv
  <1>1. TilesOf(d) = {} /\ UNCHANGED <<surroundings, procs, orphans>>
    BY Rescoped
  <1>2. PICK k \in Deck, kept \in SUBSET Custom :
          k.up /\ k.scope \in Secrets /\ SetScope(d, kept, k, Cleaned(decks[d]))
    BY Rescoped
  <1> DEFINE files == Cleaned(decks[d])
  <1>3. decks[d] \in Deck /\ files \in [Ephemeral -> Secrets \cup {Null}]
        /\ \A n \in Ephemeral : files[n] = IF n = decks[d].file THEN Null ELSE disk[n]
    BY CleanedType DEF TypeOK
  <1> HIDE DEF files
  <1>4. PICK file \in Ephemeral \cup {Null} :
           /\ nextScope \in Ephemeral /\ nextScope' = nextScope + 1
           /\ nextScope' \in 1 .. MaxScopes + 1
           /\ decks' = [decks EXCEPT ![d] = [k EXCEPT !.file = file]]
           /\ [k EXCEPT !.file = file] \in Deck
           /\ file \in {nextScope, Null}
           /\ disk' = IF file = Null THEN files ELSE [files EXCEPT ![file] = k.scope]
           /\ disk' \in [Ephemeral -> Secrets \cup {Null}] /\ decks' \in [Decks -> Deck]
           /\ remembered' = remembered \cup kept /\ remembered' \subseteq Custom
    BY <1>2, <1>3, ScopeSet DEF files
  <1>5. TypeOK'
    BY <1>1, <1>4 DEF TypeOK, surroundings
  <1>6. DecksSound'
    <2> SUFFICES ASSUME NEW e \in Decks
                 PROVE  LET x == decks'[e] IN
                        /\ ~x.up => x = Down
                        /\ x.up => x.scope \in Secrets
                        /\ x.file # Null => x.file < nextScope' /\ disk'[x.file] \in {x.scope, Null}
      BY DEF DecksSound
    <2>1. nextScope \in Nat /\ nextScope < nextScope' /\ Null \notin Ephemeral
      BY <1>4 DEF Ephemeral, ConfigAssumption, Secrets
    <2>2. CASE e = d
      <3>1. decks'[e] = [k EXCEPT !.file = file]
        BY <1>4, <2>2 DEF TypeOK
      <3>2. decks'[e].up /\ decks'[e].scope = k.scope /\ decks'[e].file = file
        BY <1>2, <3>1 DEF Deck
      <3>3. file # Null => disk'[file] = k.scope
        BY <1>3, <1>4
      <3> QED BY <1>2, <1>4, <2>1, <3>2, <3>3
    <2>3. CASE e # d
      <3>1. decks'[e] = decks[e] /\ decks[e] \in Deck
        BY <1>4, <2>3 DEF TypeOK
      <3>2. ASSUME decks[e].file # Null
            PROVE  decks[e].file < nextScope' /\ disk'[decks[e].file] \in {decks[e].scope, Null}
        <4> DEFINE n == decks[e].file
        <4>1. n \in Ephemeral /\ n < nextScope /\ disk[n] \in {decks[e].scope, Null}
          BY <3>1, <3>2 DEF DecksSound, Deck
        <4>2. n \in Nat /\ n # file
          BY <1>4, <2>1, <4>1 DEF Ephemeral
        <4>3. disk'[n] = files[n]
          BY <1>3, <1>4, <4>1, <4>2
        <4>4. n < nextScope'
          BY <1>4, <2>1, <4>1, <4>2
        <4>5. disk'[n] \in {decks[e].scope, Null}
          BY <1>3, <4>1, <4>3
        <4> QED BY <4>4, <4>5
      <3> QED BY <3>1, <3>2 DEF DecksSound
    <2> QED BY <2>2, <2>3
  <1>7. TilesSound'
    <2>1. \A e \in Decks : TilesOf(e)' = TilesOf(e)
      BY <1>1 DEF TilesOf
    <2>2. \A e \in Decks \ {d} : decks'[e] = decks[e]
      BY <1>4 DEF TypeOK
    <2> QED BY <1>1, <2>1, <2>2 DEF TilesSound
  <1>8. NoSecretLeftBehind'
    <2> SUFFICES ASSUME NEW n \in Ephemeral, disk'[n] # Null, n \notin orphans'
                 PROVE  \E e \in Decks : decks'[e].file = n
      BY DEF NoSecretLeftBehind
    <2>1. decks'[d].file = file
      BY <1>2, <1>4 DEF TypeOK, Deck
    <2>2. CASE n = file
      BY <2>1, <2>2
    <2>3. CASE n # file
      <3>1. disk'[n] = files[n]
        BY <1>3, <1>4, <2>3
      <3>2. n # decks[d].file /\ disk[n] # Null
        BY <1>3, <3>1
      <3>3. PICK e \in Decks : decks[e].file = n
        BY <1>1, <3>2 DEF NoSecretLeftBehind
      <3>4. decks'[e] = decks[e]
        BY <1>4, <3>2, <3>3 DEF TypeOK
      <3> QED BY <3>3, <3>4
    <2> QED BY <2>2, <2>3
  <1>9. CurrentIsListed'
    BY <1>1 DEF CurrentIsListed, Serving, GroupsMap
  <1> QED BY <1>5, <1>6, <1>7, <1>8, <1>9

\* A Deck that goes takes its sessions with it; its file is removed or becomes an orphan.
LEMMA LeavingKeepsInv ==
  ASSUME ConfigAssumption, Inv, NEW d \in Decks, QuitDeck(d) \/ CrashDeck(d)
  PROVE  Inv'
  <1> USE DEF Inv
  <1>1. /\ decks' = [decks EXCEPT ![d] = Down] /\ procs' = Killed(d)
        /\ nextScope' = nextScope /\ UNCHANGED <<surroundings, remembered>>
    BY DEF QuitDeck, CrashDeck
  <1>2. decks[d] \in Deck /\ decks[d].file \in Ephemeral \cup {Null}
    BY DEF TypeOK, Deck
  <1>3. /\ disk' \in [Ephemeral -> Secrets \cup {Null}]
        /\ \A n \in Ephemeral : disk'[n] \in {disk[n], Null}
        /\ orphans' \subseteq Ephemeral /\ orphans \subseteq orphans'
        /\ \A n \in Ephemeral : n = decks[d].file => disk'[n] = Null \/ n \in orphans'
    <2>1. CASE QuitDeck(d)
      <3>1. disk' = Cleaned(decks[d]) /\ orphans' = orphans
        BY <2>1 DEF QuitDeck
      <3> QED BY <1>2, <3>1, CleanedType DEF TypeOK
    <2>2. CASE CrashDeck(d)
      <3>1. disk' = disk /\ orphans' = orphans \cup ({decks[d].file} \ {Null})
        BY <2>2 DEF CrashDeck
      <3>2. Null \notin Ephemeral
        BY DEF ConfigAssumption, Secrets
      <3> QED BY <1>2, <3>1, <3>2 DEF TypeOK
    <2> QED BY <2>1, <2>2
  <1>4. \A e \in Decks : decks'[e] = IF e = d THEN Down ELSE decks[e]
    BY <1>1 DEF TypeOK
  <1>5. \A t \in Terminals : procs'[t] = IF t \in TilesOf(d) THEN Absent ELSE procs[t]
    BY <1>1 DEF Killed
  <1>6. TypeOK'
    <2>1. decks' \in [Decks -> Deck]
      BY <1>1, DownType DEF TypeOK
    <2>2. procs' \in [Terminals -> {Absent} \cup Starting \cup Server]
      BY <1>1 DEF Killed, TypeOK
    <2> QED BY <1>1, <1>3, <2>1, <2>2 DEF TypeOK, surroundings
  <1>7. DecksSound'
    <2> SUFFICES ASSUME NEW e \in Decks
                 PROVE  LET x == decks'[e] IN
                        /\ ~x.up => x = Down
                        /\ x.up => x.scope \in Secrets
                        /\ x.file # Null => x.file < nextScope' /\ disk'[x.file] \in {x.scope, Null}
      BY DEF DecksSound
    <2>1. CASE e = d
      BY <1>4, <2>1, DownType
    <2>2. CASE e # d
      <3>1. decks'[e] = decks[e] /\ decks[e] \in Deck
        BY <1>4, <2>2 DEF TypeOK
      <3>2. decks[e].file \in Ephemeral \cup {Null}
        BY <3>1 DEF Deck
      <3> QED BY <1>1, <1>3, <3>1, <3>2 DEF DecksSound
    <2> QED BY <2>1, <2>2
  <1>8. \A e \in Decks : TilesOf(e)' = IF e = d THEN {} ELSE TilesOf(e)
    <2> SUFFICES ASSUME NEW e \in Decks, NEW t \in Terminals
                 PROVE  t \in TilesOf(e)' <=> e # d /\ t \in TilesOf(e)
      BY DEF TilesOf
    <2> QED BY <1>5 DEF TilesOf, Absent
  <1>9. TilesSound'
    <2> SUFFICES ASSUME NEW e \in Decks, NEW t \in TilesOf(e)'
                 PROVE  LET p == procs'[t] k == decks'[e] IN
                        /\ k.up /\ p.env = ChildEnv(k)
                        /\ p.is = "serving" => p.forced \in {Null, k.scope}
                        /\ p.is = "serving" /\ p.forced # Null => p.home = computeGroupId(p.forced)
      BY DEF TilesSound
    <2>1. e # d /\ t \in TilesOf(e) /\ t \notin TilesOf(d)
      BY <1>8 DEF TilesOf
    <2>2. procs'[t] = procs[t] /\ decks'[e] = decks[e]
      BY <1>4, <1>5, <2>1 DEF TilesOf
    <2> QED BY <2>1, <2>2 DEF TilesSound
  <1>10. NoSecretLeftBehind'
    <2> SUFFICES ASSUME NEW n \in Ephemeral, disk'[n] # Null, n \notin orphans'
                 PROVE  \E e \in Decks : decks'[e].file = n
      BY DEF NoSecretLeftBehind
    <2>1. disk[n] # Null /\ n \notin orphans /\ n # decks[d].file
      BY <1>3
    <2>2. PICK e \in Decks : decks[e].file = n
      BY <2>1 DEF NoSecretLeftBehind
    <2> QED BY <1>4, <2>1, <2>2
  <1>11. CurrentIsListed'
    <2>1. \A t \in Serving' : t \in Serving /\ procs'[t] = procs[t]
      BY <1>5 DEF Serving, Absent
    <2> QED BY <2>1 DEF CurrentIsListed, GroupsMap
  <1> QED BY <1>6, <1>7, <1>9, <1>10, <1>11

\* What has to be shown of a step of one session, which leaves Decks and files alone.
LEMMA SessionKeepsInv ==
  ASSUME ConfigAssumption, Inv, NEW t \in Terminals,
         NEW p \in {Absent} \cup Starting \cup Server,
         procs' = [procs EXCEPT ![t] = p],
         UNCHANGED <<surroundings, disk, remembered, decks, nextScope, orphans>>,
         p.is # "absent" /\ p.deck \in Decks =>
           LET k == decks[p.deck] IN
           /\ k.up /\ p.env = ChildEnv(k)
           /\ p.is = "serving" => p.forced \in {Null, k.scope}
           /\ p.is = "serving" /\ p.forced # Null => p.home = computeGroupId(p.forced),
         p.is = "serving" => Nameable(p)
  PROVE  Inv'
  <1> USE DEF Inv
  <1>1. \A u \in Terminals : procs'[u] = IF u = t THEN p ELSE procs[u]
    BY DEF TypeOK
  <1>2. TypeOK'
    BY DEF TypeOK, surroundings
  <1>3. DecksSound'
    BY DEF DecksSound
  <1>4. TilesSound'
    <2> SUFFICES ASSUME NEW e \in Decks, NEW u \in TilesOf(e)'
                 PROVE  LET q == procs'[u] k == decks[e] IN
                        /\ k.up /\ q.env = ChildEnv(k)
                        /\ q.is = "serving" => q.forced \in {Null, k.scope}
                        /\ q.is = "serving" /\ q.forced # Null => q.home = computeGroupId(q.forced)
      BY DEF TilesSound
    <2>1. u \in Terminals /\ procs'[u].is # "absent" /\ procs'[u].deck = e
      BY DEF TilesOf
    <2>2. CASE u = t
      BY <1>1, <2>1, <2>2
    <2>3. CASE u # t
      <3>1. procs'[u] = procs[u] /\ u \in TilesOf(e)
        BY <1>1, <2>1, <2>3 DEF TilesOf
      <3> QED BY <3>1 DEF TilesSound
    <2> QED BY <2>2, <2>3
  <1>5. NoSecretLeftBehind'
    BY DEF NoSecretLeftBehind
  <1>6. CurrentIsListed'
    <2> SUFFICES ASSUME NEW u \in Serving'
                 PROVE  Nameable(procs'[u])
      BY DEF CurrentIsListed, Nameable
    <2>1. u \in Terminals /\ procs'[u].is = "serving"
      BY DEF Serving
    <2>2. CASE u = t
      BY <1>1, <2>1, <2>2
    <2>3. CASE u # t
      <3>1. procs'[u] = procs[u] /\ u \in Serving
        BY <1>1, <2>1, <2>3 DEF Serving
      <3> QED BY <3>1 DEF CurrentIsListed, Nameable
    <2> QED BY <2>2, <2>3
  <1> QED BY <1>2, <1>3, <1>4, <1>5, <1>6

LEMMA LaunchKeepsInv ==
  ASSUME ConfigAssumption, Inv, NEW t \in Terminals,
         LaunchShell(t) \/ \E d \in Decks : LaunchTile(d, t)
  PROVE  Inv'
  <1> USE DEF Inv
  <1>1. ASSUME NEW deck \in Decks \cup {Null}, NEW env \in Env
        PROVE  Launched(deck, env) \in Starting
    BY DEF Launched, Starting
  <1>2. CASE LaunchShell(t)
    <2> DEFINE p == Launched(Null, PlainEnv)
    <2>1. p \in Starting /\ p.deck = Null /\ p.is = "starting"
      BY <1>1, EnvTypes DEF Launched
    <2>2. Null \notin Decks
      BY DEF ConfigAssumption
    <2>3. /\ procs' = [procs EXCEPT ![t] = p]
          /\ UNCHANGED <<surroundings, disk, remembered, decks, nextScope, orphans>>
      BY <1>2 DEF LaunchShell
    <2> HIDE DEF p
    <2> QED BY <2>1, <2>2, <2>3, SessionKeepsInv
  <1>3. ASSUME NEW d \in Decks, LaunchTile(d, t) PROVE Inv'
    <2> DEFINE p == Launched(d, ChildEnv(decks[d]))
    <2>1. decks[d] \in Deck
      BY DEF TypeOK
    <2>2. p \in Starting /\ p.deck = d /\ p.is = "starting" /\ p.env = ChildEnv(decks[d])
      BY <1>1, <2>1, EnvTypes DEF Launched
    <2>3. /\ decks[d].up
          /\ procs' = [procs EXCEPT ![t] = p]
          /\ UNCHANGED <<surroundings, disk, remembered, decks, nextScope, orphans>>
      BY <1>3 DEF LaunchTile
    <2> HIDE DEF p
    <2> QED BY <2>2, <2>3, SessionKeepsInv
  <1> QED BY <1>2, <1>3

\* The terminals of a Deck are forced into its scope by either transport, unless the file
\* is gone.
LEMMA ForcedIntoScope ==
  ASSUME ConfigAssumption, Inv, NEW d \in Decks, decks[d].up
  PROVE  resolveForcedGroupSecret(ChildEnv(decks[d])) \in {Null, decks[d].scope}
  <1> USE DEF Inv
  <1> DEFINE k == decks[d]
             env == ChildEnv(k)
  <1>1. k \in Deck /\ k.scope # Null
    BY DEF TypeOK, DecksSound, ConfigAssumption
  <1>2. env.force = (IF k.file = Null THEN k.scope ELSE Null) /\ env.file = k.file
    BY <1>1 DEF ChildEnv, Deck, Env
  <1>3. CASE k.file = Null
    BY <1>1, <1>2, <1>3 DEF resolveForcedGroupSecret
  <1>4. CASE k.file # Null
    <2>1. disk[k.file] \in {k.scope, Null}
      BY <1>4 DEF DecksSound
    <2> HIDE DEF env, k
    <2>2. resolveForcedGroupSecret(env) = disk[k.file]
      BY <1>2, <1>4 DEF resolveForcedGroupSecret
    <2> QED BY <2>1, <2>2 DEF env, k
  <1> QED BY <1>3, <1>4

LEMMA StartKeepsInv ==
  ASSUME ConfigAssumption, Inv, NEW t \in Terminals, StartServer(t)
  PROVE  Inv'
  <1> USE DEF Inv
  <1> DEFINE old == procs[t]
             forced == resolveForcedGroupSecret(old.env)
             group == resolveGroup(old.env)
             p == [is |-> "serving", deck |-> old.deck, env |-> old.env,
                   config |-> userConfig, forced |-> forced, home |-> group, group |-> group]
  <1>1. /\ old.is = "starting"
        /\ procs' = [procs EXCEPT ![t] = p]
        /\ UNCHANGED <<surroundings, disk, remembered, decks, nextScope, orphans>>
    BY DEF StartServer
  <1>2. old.env \in Env /\ old.deck \in Decks \cup {Null} /\ t \in Terminals /\ old.is # "absent"
    BY <1>1 DEF TypeOK, Absent, Starting, Server
  <1>3. forced \in Secrets \cup {Null} /\ group \in GroupIds
    BY <1>2, GroupTypes
  <1>4. p \in Server
    BY <1>2, <1>3 DEF Server, TypeOK
  <1>5. forced # Null => group = computeGroupId(forced)
    BY DEF resolveGroup
  <1>6. p.deck \in Decks => LET k == decks[p.deck] IN
           /\ k.up /\ p.env = ChildEnv(k) /\ p.forced \in {Null, k.scope}
           /\ p.forced # Null => p.home = computeGroupId(p.forced)
    <2> SUFFICES ASSUME old.deck \in Decks
                 PROVE  /\ decks[old.deck].up /\ old.env = ChildEnv(decks[old.deck])
                        /\ forced \in {Null, decks[old.deck].scope}
      BY <1>5
    <2>1. t \in TilesOf(old.deck)
      BY <1>2 DEF TilesOf
    <2>2. decks[old.deck].up /\ old.env = ChildEnv(decks[old.deck])
      BY <2>1 DEF TilesSound
    <2> QED BY <2>2, ForcedIntoScope
  <1>7. Nameable(p)
    <2>1. p.config = userConfig /\ p.forced = forced /\ p.group = group
      OBVIOUS
    <2> HIDE DEF p
    <2>2. CASE forced # Null
      BY <1>4, <1>5, <2>1, <2>2, ForcedIsNameable
    <2>3. CASE forced = Null
      <3> DEFINE name == resolveGroupName(Depth, gitRoot)
      <3>1. name \in GroupNames \cup {DefaultName}
        BY <1>2, GroupTypes
      <3>2. group = computeGroupId(resolveGroupSecret(name, userConfig))
        BY <2>3 DEF resolveGroup
      <3> HIDE DEF name, group
      <3> QED BY <1>4, <2>1, <3>1, <3>2, ConfiguredIsNameable
    <2> QED BY <2>2, <2>3
  <1>8. p.is = "serving" /\ p.config = userConfig /\ p.forced = forced /\ p.group = group
    OBVIOUS
  <1> HIDE DEF p, forced, group, old
  <1> QED BY <1>1, <1>4, <1>6, <1>7, <1>8, SessionKeepsInv

LEMMA SwitchKeepsInv ==
  ASSUME ConfigAssumption, Inv, NEW t \in Terminals, SwitchGroup(t)
  PROVE  Inv'
  <1> USE DEF Inv
  <1> DEFINE old == procs[t]
  <1>1. PICK name \in {DefaultName} \cup {n \in GroupNames : old.config.groups[n] # Null} :
          /\ old.is = "serving"
          /\ procs' = [procs EXCEPT ![t].group =
                         computeGroupId(resolveGroupSecret(name, old.config))]
          /\ UNCHANGED <<surroundings, disk, remembered, decks, nextScope, orphans>>
    BY DEF SwitchGroup
  <1> DEFINE group == computeGroupId(resolveGroupSecret(name, old.config))
             p == [old EXCEPT !.group = group]
  <1>2. old \in Server
    BY <1>1 DEF TypeOK, Absent, Starting
  <1>3. name \in GroupNames \cup {DefaultName}
        /\ resolveGroupSecret(name, old.config) \in Secrets \cup {Null}
    <2>1. old.config \in UserConfigs
      BY <1>2 DEF Server
    <2>2. old.config.groups \in [GroupNames -> GroupSecrets \cup {Null}]
      BY <2>1 DEF ConfigAssumption
    <2> HIDE DEF old
    <2> QED BY <1>1, <2>2 DEF resolveGroupSecret, Secrets
  <1>4. group \in GroupIds
    BY <1>3 DEF GroupIds
  <1>5. procs' = [procs EXCEPT ![t] = p]
    BY <1>1
  <1> HIDE DEF group
  <1>6. p \in Server
    <2> HIDE DEF old
    <2> QED BY <1>2, <1>4 DEF Server
  <1>7. /\ p.is = "serving" /\ p.deck = old.deck /\ p.env = old.env /\ p.config = old.config
        /\ p.forced = old.forced /\ p.home = old.home /\ p.group = group
    <2> HIDE DEF old
    <2> QED BY <1>1, <1>2 DEF Server
  <1>8. p.deck \in Decks => LET k == decks[p.deck] IN
           /\ k.up /\ p.env = ChildEnv(k) /\ p.forced \in {Null, k.scope}
           /\ p.forced # Null => p.home = computeGroupId(p.forced)
    <2> SUFFICES ASSUME p.deck \in Decks
                 PROVE  LET k == decks[p.deck] IN
                        /\ k.up /\ p.env = ChildEnv(k) /\ p.forced \in {Null, k.scope}
                        /\ p.forced # Null => p.home = computeGroupId(p.forced)
      OBVIOUS
    <2>1. t \in TilesOf(p.deck)
      BY <1>1, <1>7 DEF TilesOf
    <2> HIDE DEF p
    <2> QED BY <1>1, <1>7, <2>1 DEF TilesSound
  <1>9. p.group = computeGroupId(resolveGroupSecret(name, p.config))
    BY <1>7 DEF group
  <1> HIDE DEF p, old
  <1>10. Nameable(p)
    BY <1>3, <1>6, <1>9, ConfiguredIsNameable
  <1> QED BY <1>1, <1>5, <1>6, <1>7, <1>8, <1>10, SessionKeepsInv

LEMMA EndKeepsInv ==
  ASSUME ConfigAssumption, Inv, NEW t \in Terminals, End(t)
  PROVE  Inv'
  <1>1. /\ procs' = [procs EXCEPT ![t] = Absent] /\ Absent.is = "absent"
        /\ UNCHANGED <<surroundings, disk, remembered, decks, nextScope, orphans>>
    BY DEF End, Absent
  <1>2. Absent \in {Absent} \cup Starting \cup Server
    OBVIOUS
  <1> QED BY <1>1, <1>2, SessionKeepsInv

\* Edits of the project, of settings and of config.json touch nothing a Deck or a session
\* has read.
LEMMA EditKeepsInv ==
  ASSUME ConfigAssumption, Inv,
         EditSetting \/ EditConfig \/ \E kind \in Kinds, d \in Dirs : EditProject(kind, d)
  PROVE  Inv'
  <1> USE DEF Inv
  <1>1. UNCHANGED <<disk, remembered, decks, procs, nextScope, orphans>>
    BY DEF EditSetting, EditConfig, EditProject
  <1>2. TypeOK'
    <2>1. ASSUME NEW kind \in Kinds, NEW d \in Dirs, EditProject(kind, d) PROVE TypeOK'
      <3>1. PICK content \in GroupNames \cup {NoFile, BadFile} :
              project' = [project EXCEPT ![kind][d] = content]
        BY <2>1 DEF EditProject
      <3>2. project' \in [Kinds -> [Dirs -> GroupNames \cup {NoFile, BadFile}]]
        BY <3>1 DEF TypeOK
      <3>3. edits' \in 0 .. MaxEdits
        BY <2>1 DEF EditProject, TypeOK, ConfigAssumption
      <3> QED BY <1>1, <2>1, <3>2, <3>3 DEF EditProject, TypeOK
    <2>2. CASE EditSetting
      <3>1. edits' \in 0 .. MaxEdits
        BY <2>2 DEF EditSetting, TypeOK, ConfigAssumption
      <3> QED BY <1>1, <2>2, <3>1 DEF EditSetting, TypeOK
    <2>3. CASE EditConfig
      BY <1>1, <2>3 DEF EditConfig, TypeOK
    <2> QED BY <2>1, <2>2, <2>3
  <1>3. DecksSound' /\ TilesSound' /\ NoSecretLeftBehind' /\ CurrentIsListed'
    BY <1>1 DEF DecksSound, TilesSound, TilesOf, NoSecretLeftBehind, CurrentIsListed, Serving,
                GroupsMap
  <1> QED BY <1>2, <1>3

LEMMA ReapKeepsInv ==
  ASSUME ConfigAssumption, Inv, NEW n \in Ephemeral, Reap(n)
  PROVE  Inv'
  <1> USE DEF Inv
  <1>1. /\ disk' = [disk EXCEPT ![n] = Null]
        /\ UNCHANGED <<surroundings, remembered, decks, procs, nextScope, orphans>>
    BY DEF Reap
  <1>2. \A m \in Ephemeral : disk'[m] \in {disk[m], Null}
    BY <1>1 DEF TypeOK
  <1>3. TypeOK'
    BY <1>1 DEF TypeOK, surroundings
  <1>4. DecksSound'
    <2>1. \A d \in Decks : decks[d].file \in Ephemeral \cup {Null}
      BY DEF TypeOK, Deck
    <2> QED BY <1>1, <1>2, <2>1 DEF DecksSound
  <1>5. TilesSound'
    BY <1>1 DEF TilesSound, TilesOf
  <1>6. NoSecretLeftBehind'
    BY <1>1, <1>2 DEF NoSecretLeftBehind
  <1>7. CurrentIsListed'
    BY <1>1 DEF CurrentIsListed, Serving, GroupsMap
  <1> QED BY <1>3, <1>4, <1>5, <1>6, <1>7

-----------------------------------------------------------------------------
(* The theorems *)

LEMMA InitInv == ConfigAssumption /\ Init => Inv
  <1> SUFFICES ASSUME ConfigAssumption, Init PROVE Inv
    OBVIOUS
  <1>1. \A t \in Terminals : procs[t] = Absent /\ procs[t].is = "absent"
    BY DEF Init, Absent
  <1>2. TypeOK
    <2>1. project \in [Kinds -> [Dirs -> GroupNames \cup {NoFile, BadFile}]]
      BY DEF Init
    <2>2. decks \in [Decks -> Deck]
      BY DownType DEF Init
    <2>3. nextScope \in 1 .. MaxScopes + 1 /\ edits \in 0 .. MaxEdits
      BY DEF Init, ConfigAssumption
    <2>4. disk \in [Ephemeral -> Secrets \cup {Null}]
      BY DEF Init
    <2> QED BY <2>1, <2>2, <2>3, <2>4 DEF Init, TypeOK, ConfigAssumption
  <1>3. DecksSound
    BY DownType DEF Init, DecksSound
  <1>4. TilesSound /\ CurrentIsListed
    BY <1>1 DEF TilesSound, TilesOf, CurrentIsListed, Serving
  <1>5. NoSecretLeftBehind
    BY DEF Init, NoSecretLeftBehind
  <1> QED BY <1>2, <1>3, <1>4, <1>5 DEF Inv

\* The invariant survives every step.
LEMMA NextInv == ConfigAssumption /\ Inv /\ [Next]_vars => Inv'
  <1> SUFFICES ASSUME ConfigAssumption, Inv, [Next]_vars PROVE Inv'
    OBVIOUS
  <1>1. ASSUME NEW d \in Decks, LaunchDeck(d) \/ AdoptScope(d) PROVE Inv'
    BY <1>1, RescopeKeepsInv
  <1>2. ASSUME NEW d \in Decks, QuitDeck(d) \/ CrashDeck(d) PROVE Inv'
    BY <1>2, LeavingKeepsInv
  <1>3. ASSUME NEW t \in Terminals, LaunchShell(t) \/ \E d \in Decks : LaunchTile(d, t)
        PROVE  Inv'
    BY <1>3, LaunchKeepsInv
  <1>4. ASSUME NEW t \in Terminals, StartServer(t) \/ SwitchGroup(t) \/ End(t) PROVE Inv'
    BY <1>4, StartKeepsInv, SwitchKeepsInv, EndKeepsInv
  <1>5. CASE EditSetting \/ EditConfig \/ \E kind \in Kinds, d \in Dirs : EditProject(kind, d)
    BY <1>5, EditKeepsInv
  <1>6. ASSUME NEW n \in Ephemeral, Reap(n) PROVE Inv'
    BY <1>6, ReapKeepsInv
  <1>7. CASE UNCHANGED vars
    <2>1. TypeOK' /\ DecksSound' /\ TilesSound' /\ NoSecretLeftBehind'
      BY <1>7 DEF vars, surroundings, Inv, TypeOK, DecksSound, TilesSound, TilesOf,
                  NoSecretLeftBehind
    <2>2. CurrentIsListed'
      BY <1>7 DEF vars, surroundings, Inv, CurrentIsListed, Serving
    <2> QED BY <2>1, <2>2 DEF Inv
  <1> QED BY <1>1, <1>2, <1>3, <1>4, <1>5, <1>6, <1>7 DEF Next

\* The invariant holds in every state.
THEOREM Invariant == Spec => []Inv
  <1>1. ConfigAssumption
    BY ConfigAssumption
  <1> QED BY <1>1, InitInv, NextInv, PTL DEF Spec

\* Environments, files, Decks and processes are always what the code can make of them.
THEOREM TypeCorrect == Spec => []TypeOK
  <1>1. Inv => TypeOK
    BY DEF Inv
  <1> QED BY <1>1, Invariant, PTL

\* For any number of Decks, terminals, scopes, restores, crashes and removals by the
\* system, and whatever environment a Deck was launched with, every session of a Deck that
\* found its secret was started in the scope the Deck has now (scope.ts, index.ts).
THEOREM DecksKeepTheirSessions == Spec => []TilesInScope
  <1>1. Inv => TilesInScope
    <2> SUFFICES ASSUME Inv, NEW d \in Decks, NEW t \in TilesOf(d) \cap Serving,
                        procs[t].forced # Null
                 PROVE  procs[t].home = computeGroupId(decks[d].scope)
      BY DEF TilesInScope
    <2> QED BY DEF Inv, TilesSound, Serving
  <1> QED BY <1>1, Invariant, PTL

\* Every secret on disk belongs to a Deck that is up with the scope it pins, or was left by
\* a crash (index.ts:137, 264).
THEOREM SecretsAreCleanedUp == Spec => []NoSecretLeftBehind
  <1>1. Inv => NoSecretLeftBehind
    BY DEF Inv
  <1> QED BY <1>1, Invariant, PTL

\* After any number of switches, and whatever became of the configuration, a session can
\* name the group it is in and so the one its Deck forced it into; unknown may be only a
\* group of the user's whose name the forced one has taken (server.ts:201-206,
\* config.ts:415-418).
THEOREM GroupsHaveNames == Spec => []CurrentIsListed
  <1>1. Inv => CurrentIsListed
    BY DEF Inv
  <1> QED BY <1>1, Invariant, PTL

\* Projects of any depth, with any files in any of their directories, resolve to the group
\* that README.md:209-217 describes.
THEOREM ResolutionIsAsDocumented == Spec => []ResolvesAsDocumented
  <1>1. ConfigAssumption
    BY ConfigAssumption
  <1>2. Inv => ResolvesAsDocumented
    BY <1>1, ResolvesAsWritten DEF Inv
  <1> QED BY <1>2, Invariant, PTL

\* Whatever the settings are and wherever they are set, a Deck and its sessions talk to one
\* broker with one token, but for an empty url and a config.json edited since
\* (broker-client.ts:9-12, config.ts).
THEOREM OneBroker == Spec => []AnnouncesReachBroker
  <1>1. ASSUME NEW env \in BrokerSettings, NEW file \in BrokerSettings,
               Or(env.broker_url, file.broker_url) # Empty
        PROVE  resolveBrokerEndpoint(env, file) = SessionEndpoint(env, file)
    BY <1>1 DEF resolveBrokerEndpoint, SessionEndpoint, LoadConfig, brokerUrl, Or, BrokerSettings,
                ConfigAssumption
  <1>2. ConfigAssumption
    BY ConfigAssumption
  <1>3. Inv => AnnouncesReachBroker
    <2> SUFFICES ASSUME Inv, NEW t \in Serving, procs[t].config = userConfig,
                        NEW env \in BrokerSettings,
                        Or(env.broker_url, userConfig.broker.broker_url) # Empty
                 PROVE  resolveBrokerEndpoint(env, userConfig.broker)
                          = SessionEndpoint(env, procs[t].config.broker)
      BY DEF AnnouncesReachBroker
    <2>1. userConfig.broker \in BrokerSettings
      BY <1>2 DEF Inv, TypeOK, ConfigAssumption
    <2> QED BY <1>1, <2>1
  <1> QED BY <1>3, Invariant, PTL
=============================================================================
