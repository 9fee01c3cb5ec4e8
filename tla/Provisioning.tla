------------------------------ MODULE Provisioning ------------------------------
(* The commands that tie this machine to the memory provider: TencentInit and  *)
(* SetupProject (internal/app/app.go), restore (internal/app/backup.go,        *)
(* restore_tencent.go), over EnsureIdentityWithExistingUserKey and the receipt *)
(* with which it is undone (internal/memory/tencent).  Each command is a       *)
(* process of its own; all read global.json when they begin and replace it     *)
(* when they end, and nothing keeps two of them apart.                         *)
(*                                                                             *)
(* The provider is external: it keeps one user and, for a user, one team of a  *)
(* name and refuses a second; a request may take effect and be answered by an  *)
(* error.  Its ids are never given twice: they name the command they are made  *)
(* by, and a command makes one entity of a kind.                               *)
EXTENDS Integers, FiniteSets

CONSTANTS
    Procs,       \* the commands run, a process each
    Projects,
    CommandsOf,  \* what each may be, see Commands
    Old,         \* whoever made what was there before
    None,
    MaxRunning,  \* bound on commands that run at once
    MaxCrashes   \* bound on killed processes

Makers == Procs \cup {Old}
Commands == [op : {"init", "restore", "replace"}, project : {None}]
              \cup [op : {"setup"}, project : Projects]

ASSUME ProvisioningConstants ==
    /\ MaxRunning \in Nat /\ MaxCrashes \in Nat
    /\ CommandsOf \in [Procs -> SUBSET Commands]
    /\ Old \notin Procs /\ None \notin Makers \cup Projects

(* The metadata of the provider; a key, a team and an agent belong to a user. *)
User(m)         == [kind |-> "user", user |-> m, maker |-> m, project |-> None]
Key(u, m)       == [kind |-> "key", user |-> u.maker, maker |-> m, project |-> None]
Team(u, m)      == [kind |-> "team", user |-> u.maker, maker |-> m, project |-> None]
Agent(t, m, pr) == [kind |-> "agent", user |-> t.user, maker |-> m, project |-> pr]

OldUser == User(Old)
OldTeam == Team(OldUser, Old)
OldKey  == Key(OldUser, Old)

ASSUME NoneIsNothing == None \notin {OldUser, OldTeam}

VARIABLES
    remote,      \* the metadata of the provider
    home,        \* the configuration directory and its global.json
    aside,       \* directories a restore moved away
    deployment,  \* where the managed deployment is: none, home, aside
    env,         \* .baron/.env of each project
    run,         \* the process of each command
    crashes

vars == <<remote, home, aside, deployment, env, run, crashes>>
disk == <<home, aside, deployment, env>>

NoIdentity == [user |-> None, key |-> None, team |-> None]
NoBinding  == [team |-> None, agent |-> None, user |-> None]
EmptyState == [identity |-> NoIdentity, bindings |-> [pr \in Projects |-> NoBinding], path |-> FALSE]
OldIdentity == [user |-> OldUser, key |-> OldKey, team |-> OldTeam]
OldBindings == [pr \in Projects |->
    [team |-> OldTeam, agent |-> Agent(OldTeam, Old, pr), user |-> OldUser]]
OldState == [identity |-> OldIdentity, bindings |-> OldBindings, path |-> TRUE]

(* What BackupProject puts into the archive: no user key. *)
Archive == [OldState EXCEPT !.identity.key = None]

Idle == [pc |-> "idle", command |-> [op |-> "init", project |-> None], state |-> EmptyState,
         identity |-> NoIdentity, created |-> {}, binding |-> NoBinding,
         existed |-> FALSE, committed |-> FALSE, fault |-> FALSE, leak |-> FALSE]

(* A machine that was never set up, one that was, and either with the data of  *)
(* the provider there or gone.                                                 *)
Init ==
    /\ remote \in {{}, {OldUser, OldTeam, OldKey} \cup {OldBindings[pr].agent : pr \in Projects}}
    /\ home \in {[there |-> FALSE, state |-> EmptyState], [there |-> TRUE, state |-> OldState]}
    /\ deployment = IF home.there THEN "home" ELSE "none"
    /\ env = [pr \in Projects |-> IF home.there THEN OldBindings[pr] ELSE NoBinding]
    /\ aside = {} /\ crashes = 0
    /\ run = [p \in Procs |-> Idle]

-------------------------------------------------------------------------------
At(p, pc) == run[p].pc = pc
Goto(p, pc) == run' = [run EXCEPT ![p].pc = pc]
Op(p) == run[p].command.op
Running(p) == run[p].pc \notin {"idle", "ok", "failed", "dead"}
Restoring(p) == Op(p) \in {"restore", "replace"}

(* An error from outside: a request, a script or a write that failed. *)
Fault(p, pc) == run' = [run EXCEPT ![p].pc = pc, ![p].fault = TRUE]

(* A restore refuses a directory it was not told to replace. *)
MayReplace(c) == c.op = "restore" => ~home.there

(* loadGlobal: a file that is not there is an empty state.  A restore reads    *)
(* the archive instead.                                                        *)
Begin(p, c) ==
    /\ At(p, "idle") /\ Cardinality({q \in Procs : Running(q)}) < MaxRunning
    /\ MayReplace(c)
    /\ run' = [run EXCEPT ![p] = [Idle EXCEPT
          !.pc = IF c.op = "setup" THEN "agent" ELSE "deploy", !.command = c,
          !.existed = home.there,
          !.state = IF c.op \in {"restore", "replace"} THEN Archive
                    ELSE IF home.there THEN home.state ELSE EmptyState]]
    /\ UNCHANGED <<remote, disk, crashes>>

(* ensureManagedCheckout makes the directories above its checkout as well. *)
Checkout == deployment' = "home" /\ home' = [home EXCEPT !.there = TRUE]

(* Services that answer are used as they are; otherwise                        *)
(* EnsureTencentDeployment makes its checkout below the configuration          *)
(* directory, where it stays when a later step of the deployment fails.        *)
Deploy(p) ==
    /\ At(p, "deploy")
    /\ \/ (Goto(p, "user") \/ Fault(p, "failed")) /\ UNCHANGED disk
       \/ /\ Goto(p, "user") \/ Fault(p, "failed")
          /\ Checkout
          /\ UNCHANGED <<aside, env>>
    /\ UNCHANGED <<remote, crashes>>

-------------------------------------------------------------------------------
(* The steps of EnsureIdentityWithExistingUserKey.  Its failure is undone with *)
(* the receipt of what it made itself.                                         *)
Identify(p, part, x, pc) == run' = [run EXCEPT ![p].pc = pc, ![p].identity[part] = x]

IdentityMade(p, part, x, pc, receipt) ==
    run' = [run EXCEPT ![p].pc = pc, ![p].identity[part] = x,
               ![p].created = IF receipt THEN @ \cup {x} ELSE @,
               ![p].leak = @ \/ ~receipt]

(* Mutated List: what is found is entered in the receipt as well. *)
ListTracked(p, at, part, matches, next, create) ==
    /\ At(p, at)
    /\ \/ \E x \in matches : IdentityMade(p, part, x, next, TRUE)
       \/ matches = {} /\ Goto(p, create)
       \/ Fault(p, "rollback")
    /\ UNCHANGED <<remote, disk, crashes>>

(* ensureNamedTracked, the listing *)
List(p, at, part, matches, next, create) ==
    /\ At(p, at)
    /\ \/ \E x \in matches : Identify(p, part, x, next)
       \/ matches = {} /\ Goto(p, create)
       \/ Fault(p, "rollback")
    /\ UNCHANGED <<remote, disk, crashes>>

(* ensureNamedTracked, the creation: refused when the name was taken since,    *)
(* and made all the same when the answer is lost.                              *)
CreateNamed(p, at, part, x, taken, next) ==
    /\ At(p, at)
    /\ \/ ~taken /\ remote' = remote \cup {x} /\ IdentityMade(p, part, x, next, TRUE)
       \/ /\ ~taken /\ remote' = remote \cup {x}
          /\ run' = [run EXCEPT ![p].pc = "rollback", ![p].fault = TRUE, ![p].leak = TRUE]
       \/ Fault(p, "rollback") /\ UNCHANGED remote
    /\ UNCHANGED <<disk, crashes>>

Of(kind, u) == {x \in remote : x.kind = kind /\ x.user = u.user}

EnsureUser(p) ==
    \/ List(p, "user", "user", {x \in remote : x.kind = "user"}, "key", "userCreate")
    \/ CreateNamed(p, "userCreate", "user", User(p), \E x \in remote : x.kind = "user", "key")

(* The key in global.json, else one that came with the new user or a new one:  *)
(* a listing shows no secrets.  A key that comes without an id of its own is   *)
(* not in the receipt.                                                         *)
EnsureKey(p) ==
    /\ At(p, "key")
    /\ LET known == run[p].state.identity.key
           new   == Key(run[p].identity.user, p) IN
       \/ known # None /\ Identify(p, "key", known, "team") /\ UNCHANGED remote
       \/ /\ known = None /\ remote' = remote \cup {new}
          /\ \E receipt \in BOOLEAN : IdentityMade(p, "key", new, "team", receipt)
       \/ known = None /\ Fault(p, "rollback") /\ UNCHANGED remote
    /\ UNCHANGED <<disk, crashes>>

(* Asked with the user's own key, which has to be one the provider knows. *)
EnsureTeam(p) ==
    LET u == run[p].identity.user IN
    \/ List(p, "team", "team", Of("team", u), "verify", "teamCreate")
    \/ CreateNamed(p, "teamCreate", "team", Team(u, p), Of("team", u) # {}, "verify")

Live(identity) == {identity.key, User(identity.key.user)} \subseteq remote

(* Mutated VerifyAuth: the key is taken as it is. *)
VerifyNothing(p) ==
    /\ At(p, "verify")
    /\ Goto(p, IF Restoring(p) THEN "bindings" ELSE "save")
    /\ UNCHANGED <<remote, disk, crashes>>

VerifyAuth(p) ==
    /\ At(p, "verify")
    /\ \/ Live(run[p].identity) /\ Goto(p, IF Restoring(p) THEN "bindings" ELSE "save")
       \/ Fault(p, "rollback")
    /\ UNCHANGED <<remote, disk, crashes>>

(* Mutated Rollback: the newest only. *)
RollbackNewest(p) ==
    /\ At(p, "rollback")
    /\ \E gone \in SUBSET run[p].created : Cardinality(gone) <= 1 /\ remote' = remote \ gone
    /\ run' = [run EXCEPT ![p].pc = "failed", ![p].created = {}]
    /\ UNCHANGED <<disk, crashes>>

(* IdentityProvision.Rollback: every deletion is tried, each may fail. *)
Rollback(p) ==
    /\ At(p, "rollback")
    /\ \E gone \in SUBSET run[p].created :
          /\ remote' = remote \ gone
          /\ run' = [run EXCEPT ![p].pc = "failed", ![p].created = {},
                        ![p].leak = @ \/ gone # run[p].created]
    /\ UNCHANGED <<disk, crashes>>

(* saveGlobal.  AtomicWriteFile makes the directory before it writes, and may  *)
(* fail after its rename as well: an error says nothing of the file.           *)
Written(state) == [there |-> TRUE, state |-> state]
Unsure(state)  == {home, [home EXCEPT !.there = TRUE], Written(state)}

(* TencentInit, the end: the receipt file and global.json as it was read, with *)
(* the identity; then Commit.                                                  *)
SaveIdentity(p) ==
    /\ At(p, "save") /\ Op(p) = "init"
    /\ LET state == [run[p].state EXCEPT !.identity = run[p].identity, !.path = TRUE] IN
       \/ /\ home' = Written(state)
          /\ run' = [run EXCEPT ![p].pc = "ok", ![p].created = {}, ![p].committed = TRUE]
       \/ home' \in Unsure(state) /\ Fault(p, "rollback")
    /\ UNCHANGED <<remote, aside, deployment, env, crashes>>

-------------------------------------------------------------------------------
Project(p) == run[p].command.project

AgentsOf(p, pr) ==
    {x \in remote : x.kind = "agent" /\ x.project = pr /\ x.user = run[p].state.identity.team.user}

Bind(p, x) ==
    run' = [run EXCEPT ![p].pc = "env",
               ![p].binding = [team |-> run[p].state.identity.team, agent |-> x,
                               user |-> run[p].state.identity.user]]

(* project.Setup with EnsureProjectAgent; without an identity the binding of   *)
(* global.json is kept.                                                        *)
EnsureAgent(p) ==
    /\ \/ /\ At(p, "agent") /\ run[p].state.identity = NoIdentity
          /\ run' = [run EXCEPT ![p].pc = "env", ![p].binding = run[p].state.bindings[Project(p)]]
          /\ UNCHANGED remote
       \/ /\ At(p, "agent") /\ run[p].state.identity # NoIdentity
          /\ \/ \E x \in AgentsOf(p, Project(p)) : Bind(p, x)
             \/ AgentsOf(p, Project(p)) = {} /\ Goto(p, "agentCreate")
             \/ Fault(p, "failed")
          /\ UNCHANGED remote
       \/ /\ At(p, "agentCreate")
          /\ LET x == Agent(run[p].state.identity.team, p, Project(p)) IN
             \/ remote' = remote \cup {x} /\ (Bind(p, x) \/ Fault(p, "failed"))
             \/ UNCHANGED remote /\ Fault(p, "failed")
    /\ UNCHANGED <<disk, crashes>>

(* applyIdentity and applyBinding set what is not empty. *)
Merged(old, new) == IF new.agent = None THEN old ELSE new

(* The environment of the project, then the search that verifies it; when that *)
(* fails the environment is written and global.json is not.                    *)
WriteEnv(p) ==
    /\ At(p, "env")
    /\ env' = [env EXCEPT ![Project(p)] = Merged(@, run[p].binding)]
    /\ Goto(p, "save") \/ Fault(p, "failed")
    /\ UNCHANGED <<remote, home, aside, deployment, crashes>>

(* SetupProject, the end: global.json as it was read, with the binding. *)
SaveBinding(p) ==
    /\ At(p, "save") /\ Op(p) = "setup"
    /\ LET state == [run[p].state EXCEPT !.bindings[Project(p)] = env[Project(p)]] IN
       \/ home' = Written(state) /\ Goto(p, "ok")
       \/ home' \in Unsure(state) /\ Fault(p, "failed")
    /\ UNCHANGED <<remote, aside, deployment, env, crashes>>

-------------------------------------------------------------------------------
(* Mutated Fits: the account is not compared, the agents are only looked for. *)
FitsAnyAccount(p) ==
    \A pr \in Projects : \E x \in remote : x.kind = "agent" /\ x.project = pr

(* FindProjectAgent: the agents of the project, none of them made for it. *)
FindProjectAgent(p, pr) ==
    {x \in remote : x.kind = "agent" /\ x.project = pr /\ x.user = run[p].identity.team.user}

(* What the archive does not name is not compared. *)
Agrees(archived, found) == archived \in {None, found}

(* The account found is the one of the archive, and so is the agent found for  *)
(* every project that is bound.                                                *)
Fits(p) ==
    /\ Agrees(run[p].state.identity.team, run[p].identity.team)
    /\ Agrees(run[p].state.identity.user, run[p].identity.user)
    /\ \A pr \in Projects : run[p].state.bindings[pr] # NoBinding =>
          \E x \in FindProjectAgent(p, pr) :
              FindProjectAgent(p, pr) = {x} /\ Agrees(run[p].state.bindings[pr].agent, x)

(* restoreTencentState after VerifyAuth, then Commit. *)
CheckBindings(p) ==
    /\ At(p, "bindings")
    /\ \/ /\ Fits(p)
          /\ run' = [run EXCEPT ![p].pc = "move", ![p].created = {}, ![p].committed = TRUE,
                        ![p].state.identity = run[p].identity, ![p].state.path = TRUE]
       \/ Fault(p, "rollback")
    /\ UNCHANGED <<remote, disk, crashes>>

(* Mutated MoveAside: the directory is removed. *)
MoveNowhere(p) ==
    /\ At(p, "move")
    /\ home' = [there |-> FALSE, state |-> EmptyState]
    /\ Goto(p, "install")
    /\ UNCHANGED <<remote, aside, deployment, env, crashes>>

(* The first rename, of a directory that was there when the restore began; the *)
(* deployment below it goes with it.                                           *)
MoveAside(p) ==
    /\ At(p, "move")
    /\ \/ ~run[p].existed /\ Goto(p, "install") /\ UNCHANGED disk
       \/ /\ run[p].existed /\ home.there
          /\ aside' = aside \cup {home.state}
          /\ home' = [there |-> FALSE, state |-> EmptyState]
          /\ deployment' = IF deployment = "home" THEN "aside" ELSE deployment
          /\ Goto(p, "install") /\ UNCHANGED env
       \/ run[p].existed /\ Fault(p, "failed") /\ UNCHANGED disk
    /\ UNCHANGED <<remote, crashes>>

(* The second rename: it cannot replace a directory that is not empty.  On an  *)
(* error the first one is taken back.                                          *)
Install(p) ==
    /\ At(p, "install")
    /\ \/ /\ ~home.there
          /\ home' = [there |-> TRUE, state |-> run[p].state]
          /\ Goto(p, "ok") /\ UNCHANGED <<aside, deployment>>
       \/ /\ home.there
          /\ Goto(p, "failed") /\ UNCHANGED <<home, aside, deployment>>
       \/ /\ ~home.there /\ Fault(p, "failed")
          /\ IF run[p].existed /\ aside # {}
             THEN /\ \E s \in aside : home' = [there |-> TRUE, state |-> s] /\ aside' = aside \ {s}
                  /\ deployment' = IF deployment = "aside" THEN "home" ELSE deployment
             ELSE UNCHANGED <<home, aside, deployment>>
    /\ UNCHANGED <<remote, env, crashes>>

(* A command is killed. *)
Crash(p) ==
    /\ crashes < MaxCrashes /\ Running(p)
    /\ crashes' = crashes + 1
    /\ run' = [run EXCEPT ![p].pc = "dead", ![p].leak = TRUE]
    /\ UNCHANGED <<remote, disk>>

Next ==
    \E p \in Procs :
        \/ \E c \in CommandsOf[p] : Begin(p, c)
        \/ Deploy(p) \/ EnsureUser(p) \/ EnsureKey(p) \/ EnsureTeam(p) \/ VerifyAuth(p)
        \/ Rollback(p) \/ SaveIdentity(p) \/ EnsureAgent(p) \/ WriteEnv(p) \/ SaveBinding(p)
        \/ CheckBindings(p) \/ MoveAside(p) \/ Install(p) \/ Crash(p)

Spec == Init /\ [][Next]_vars

-------------------------------------------------------------------------------
(* The identity of global.json is of one piece: the key and the team are the   *)
(* user's, also when the provider lost its data or another command replaced    *)
(* the file in between (VerifyAuth before saveGlobal, in TencentInit and in    *)
(* restoreTencentState).                                                       *)
IdentityConsistent ==
    home.state.identity # NoIdentity =>
        /\ home.state.identity.key.user = home.state.identity.user.user
        /\ home.state.identity.team.user = home.state.identity.user.user

(* A command takes from the provider only what it made itself, whatever else   *)
(* was found or made meanwhile ("Existing entities are never added to the      *)
(* receipt and therefore can never be deleted by Rollback", client.go).        *)
OwnRollback ==
    [][\A x \in remote \ remote' : x.maker \in Procs /\ At(x.maker, "rollback")]_vars

(* A command that failed before it committed left no user, key or team behind, *)
(* unless an answer was lost, a deletion failed or a key came without an id    *)
(* (fail and rollback of EnsureIdentityWithExistingUserKey).                   *)
FailedLeavesNothing ==
    \A p \in Procs : run[p].pc = "failed" /\ ~run[p].committed /\ ~run[p].leak =>
        \A x \in remote : x.maker = p => x.kind = "agent"

(* A restore that went through installed the account and the bindings of the   *)
(* archive, found at the provider ("an unverified or cross-account Tencent     *)
(* namespace" is what the comment in backup.go rules out).                     *)
RestoredSameAccount ==
    \A p \in Procs : Restoring(p) /\ run[p].pc = "ok" =>
        /\ run[p].state.identity.user = Archive.identity.user
        /\ run[p].state.identity.team = Archive.identity.team
        /\ run[p].state.bindings = Archive.bindings

(* A restore keeps the state it replaces: with every step of its own the old   *)
(* one stays in its place or in a sibling directory, also when it fails, or is *)
(* killed, between the renames (README: "the current state moved to a          *)
(* recoverable sibling backup first").                                         *)
Kept == aside \cup (IF home.there THEN {home.state} ELSE {})
PreviousKept ==
    [][\A p \in Procs : Restoring(p) /\ run'[p] # run[p] => Kept \subseteq Kept']_vars

(* A restore in which nothing failed succeeds: it "runs the same managed Linux *)
(* bootstrap used by tencent-memory init" and then installs the staged state   *)
(* (restore_tencent.go:39-43, backup.go:186-191).                              *)
RestoreSucceeds ==
    \A p \in Procs : Restoring(p) /\ run[p].pc = "failed" => run[p].fault

===============================================================================
