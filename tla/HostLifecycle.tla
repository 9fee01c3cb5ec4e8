----------------------------- MODULE HostLifecycle -----------------------------
(* What Baron leaves on its host besides the managed runtime, and the commands *)
(* that change it: the bundle that installs and updates everything             *)
(* (runFullBundle, runBootstrap and the init steps of app.go), the self update *)
(* (internal/release, internal/install/update.go), the rotation of the         *)
(* provider key over its stores (strix_credentials.go, SetCredential and       *)
(* resolveDSHCredential of app.go), the permission launchers                   *)
(* (internal/permissions) and the uninstaller (internal/uninstall).            *)
(*                                                                             *)
(* One command runs at a time.  Every write, rename or removal is a step of    *)
(* its own that may fail, and the command may be killed between any two; the   *)
(* next one starts from what is left.  Shared files keep their owner's content *)
(* throughout: a part is what Baron has in such a file.                        *)
EXTENDS Integers, Sequences, FiniteSets

CONSTANTS
    Keys,         \* provider keys
    Releases,     \* the releases the server may offer, see Release
    Installed,    \* the release that is installed at first
    Owned,        \* the sets of launchers that may be the user's own at first
    None,
    MaxCommands,  \* bound on commands run
    MaxRevoked,   \* bound on keys withdrawn
    MaxFaults,    \* bound on operations that fail
    MaxKills      \* bound on killed commands

(* version is the tag's, manifest the one in the manifest; listed: the         *)
(* manifest names the asset; checksum: the sums match; launches: the binary    *)
(* starts and reports its version.                                             *)
Release == [version : Nat, manifest : Nat, listed : BOOLEAN, checksum : BOOLEAN, launches : BOOLEAN]

Stores    == {"dsh", "tencent", "strix"}
Launchers == {"dsh", "codex"}

ASSUME HostConstants ==
    /\ Releases \subseteq Release /\ Installed \in Release
    /\ Owned \subseteq SUBSET Launchers
    /\ MaxCommands \in Nat /\ MaxRevoked \in Nat /\ MaxFaults \in Nat /\ MaxKills \in Nat
    /\ None \notin Keys \cup Release

Receipts  == {"dshReceipt", "codexReceipt", "tencentReceipt"}
Listable  == Receipts \cup {"project", "tencent", "runtime"}
Parts     == Listable \cup {"hooks", "gitignore", "patch", "containers", "global", "dsh", "baseline", "codex"}

VARIABLES
    parts,      \* what Baron has on the host: whole, partial or gone; a deployment
                \* of Tencent's without its manifest is partial
    listed,     \* the parts global.json names
    stores,     \* the key in each credential store
    stages,     \* the stores beside which a staged key was left
    valid,      \* the keys the provider accepts
    launchers,  \* each permission launcher: none, baron or the user's own
    binary,     \* the executable: its release, and whether it was validated in place
    backups,    \* its update backups
    resolved,   \* Tencent's manifest has the images of every container of its
    cmd,        \* the command
    commands, faults, kills

vars == <<parts, listed, stores, stages, resolved, valid, launchers, binary, backups, cmd,
          commands, faults, kills>>
host == <<parts, listed, stores, stages, launchers, binary, backups>>
others == <<resolved, valid, commands, kills>>

NoBinary == [release |-> None, checked |-> FALSE]
NoKeys   == [s \in Stores |-> None]

Idle == [pc |-> "idle", op |-> None, key |-> None, todo |-> <<>>, done |-> <<>>, later |-> <<>>,
         here |-> FALSE, created |-> {}, staged |-> NoKeys,
         release |-> Installed, backup |-> NoBinary, stores |-> NoKeys,
         purge |-> FALSE, whole |-> FALSE, again |-> FALSE, docker |-> {},
         saved |-> FALSE, torn |-> FALSE, warned |-> FALSE]

(* Everything is installed, or nothing but the executable. *)
Init ==
    /\ \E k \in Keys :
          \/ /\ parts = [x \in Parts |-> "whole"] /\ listed = Listable /\ resolved \in BOOLEAN
             /\ stores = [s \in Stores |-> k]
          \/ /\ parts = [x \in Parts |-> "gone"] /\ listed = {} /\ resolved = FALSE
             /\ stores \in {NoKeys, [NoKeys EXCEPT !["dsh"] = k]}
    /\ stages = {} /\ valid = Keys
    /\ \E own \in Owned : launchers = [l \in Launchers |-> IF l \in own THEN "user" ELSE "none"]
    /\ binary = [release |-> Installed, checked |-> TRUE] /\ backups = {}
    /\ cmd = Idle /\ commands = 0 /\ faults = 0 /\ kills = 0

-------------------------------------------------------------------------------
At(pc) == cmd.pc = pc
Goto(pc) == cmd' = [cmd EXCEPT !.pc = pc]
Ended == cmd.pc \in {"idle", "ok", "failed", "dead"}
Fault == faults < MaxFaults /\ faults' = faults + 1
Smooth == UNCHANGED faults

(* A command needs a program that starts. *)
Begin(op, record) ==
    /\ Ended /\ commands < MaxCommands
    /\ binary # NoBinary /\ binary.release.launches
    /\ commands' = commands + 1
    /\ cmd' = [record EXCEPT !.op = op, !.stores = stores]
    /\ UNCHANGED <<host, resolved, valid, faults, kills>>

Known(part) == parts["global"] = "whole" /\ part \in listed

(* The chosen steps of a plan, in its order, among its last n. *)
Remaining(plan, chosen) ==
    LET F[n \in 0..Len(plan)] ==
            IF n = 0 THEN <<>>
            ELSE LET step == plan[Len(plan) + 1 - n] IN
                 IF step \in chosen THEN <<step>> \o F[n - 1] ELSE F[n - 1]
    IN  F

Chosen(plan, chosen) == Remaining(plan, chosen)[Len(plan)]

Step(step) == cmd.todo # <<>> /\ Head(cmd.todo) = step
Stepped == [cmd EXCEPT !.todo = Tail(@)]

-------------------------------------------------------------------------------
(* The self update: InstallLatest *)
BeginUpdate == \E op \in {"update", "install"} : Begin(op, [Idle EXCEPT !.pc = "latest"])

(* Mutated UpToDate: only the very same version is left alone. *)
UpToDateOnlyEqual(release) == release.version = binary.release.version

(* The running version is compared with the tag's; install forces. *)
UpToDate(release) == release.version <= binary.release.version

Latest ==
    /\ At("latest")
    /\ \/ /\ Smooth
          /\ \E release \in Releases : cmd' = [cmd EXCEPT !.release = release,
                !.pc = IF cmd.op # "install" /\ UpToDate(release) THEN "ok" ELSE "check"]
       \/ Goto("failed") /\ Fault
    /\ UNCHANGED <<host, others>>

Manifested(release) == release.manifest = release.version /\ release.listed
Genuine(release) == Manifested(release) /\ release.checksum

(* A download and what is asked of it. *)
Checked(pc, holds, next) ==
    /\ At(pc)
    /\ (Goto(IF holds THEN next ELSE "failed") /\ Smooth) \/ (Goto("failed") /\ Fault)
    /\ UNCHANGED <<host, others>>

(* The manifest, then the binary and its sum; the staged copy is started. *)
CheckManifest == Checked("check", Manifested(cmd.release), "sums")
CheckSums     == Checked("sums", cmd.release.checksum, "launch")
CheckLaunch   == Checked("launch", cmd.release.launches, "backup")

(* UpdateBinary: a copy of the current executable, *)
BackupBinary ==
    /\ At("backup")
    /\ \/ /\ backups' = backups \cup {binary}
          /\ cmd' = [cmd EXCEPT !.pc = "replace", !.backup = binary] /\ Smooth
       \/ Goto("failed") /\ Fault /\ UNCHANGED backups
    /\ UNCHANGED <<parts, listed, stores, stages, launchers, binary, others>>

(* the rename over it, *)
ReplaceBinary ==
    /\ At("replace")
    /\ \/ /\ binary' = [release |-> cmd.release, checked |-> FALSE]
          /\ Goto("validate") /\ Smooth
       \/ Goto("failed") /\ Fault /\ UNCHANGED binary
    /\ UNCHANGED <<parts, listed, stores, stages, launchers, backups, others>>

(* and the check of the binary in its place. *)
ValidateBinary ==
    /\ At("validate")
    /\ \/ binary' = [binary EXCEPT !.checked = TRUE] /\ Goto("ok") /\ Smooth
       \/ UNCHANGED binary /\ Goto("restore") /\ Fault
    /\ UNCHANGED <<parts, listed, stores, stages, launchers, backups, others>>

RestoreBinary ==
    /\ At("restore")
    /\ \/ binary' = cmd.backup /\ backups' = backups \ {cmd.backup} /\ Goto("failed") /\ Smooth
       \/ UNCHANGED <<binary, backups>> /\ Goto("failed") /\ Fault
    /\ UNCHANGED <<parts, listed, stores, stages, launchers, others>>

-------------------------------------------------------------------------------
(* The provider key.  A new one is prompted for until the provider accepts it. *)
(* Tencent's is a target as soon as its .env is there.                         *)
Targets(all) ==
    Chosen(<<"dsh", "tencent", "strix">>, {s \in Stores :
        \/ s = "dsh"
        \/ s = "tencent" /\ all /\ Known("tencent") /\ stores["tencent"] # None
        \/ s = "strix" /\ Known("runtime")})

Rotating(k, all) == [Idle EXCEPT !.pc = "stage", !.key = k, !.todo = Targets(all)]

(* ValidateOpenAICompatible *)
Accepted(k) == k \in valid

(* SetCredential *)
BeginRotate == \E k \in Keys : Accepted(k) /\ Begin("rotate", Rotating(k, TRUE))

(* resolveDSHCredential: the key in the environment, which must do, or that of *)
(* DSH, else that of Tencent, else a new one; Tencent's own file is left to    *)
(* its next start.                                                             *)
Resolves(k, env) ==
    /\ Accepted(k)
    /\ env # None => k = env
    /\ env = None /\ Accepted(stores["dsh"]) => k = stores["dsh"]
    /\ env = None /\ ~Accepted(stores["dsh"]) /\ Known("tencent") /\ Accepted(stores["tencent"])
          => k = stores["tencent"]

BeginResolve ==
    \E k \in Keys, env \in Keys \cup {None} :
        Resolves(k, env) /\ Begin("resolve", Rotating(k, FALSE))

(* credentialData: the content of the store with the key in it *)
CredentialData(s) == [cmd.staged EXCEPT ![s] = cmd.key]

(* removeCredentialStages: of the files this rotation knows it has made *)
Unstage(pc) == cmd' = [cmd EXCEPT !.pc = pc, !.staged = NoKeys]

(* Stage, target by target: nothing live is changed.  A write that fails after *)
(* its rename leaves a file the rotation does not know of.                     *)
Stage ==
    /\ At("stage")
    /\ \/ /\ cmd.todo # <<>> /\ Smooth /\ UNCHANGED stages
          /\ cmd' = [cmd EXCEPT !.todo = Tail(@), !.done = Append(@, Head(cmd.todo)),
                                !.staged = CredentialData(Head(cmd.todo))]
       \/ cmd.todo # <<>> /\ Fault /\ Unstage("failed") /\ UNCHANGED stages
       \/ /\ cmd.todo # <<>> /\ Fault
          /\ stages' = stages \cup {Head(cmd.todo)}
          /\ cmd' = [cmd EXCEPT !.pc = "failed", !.staged = NoKeys, !.torn = TRUE]
       \/ /\ cmd.todo = <<>> /\ Smooth /\ UNCHANGED stages
          /\ cmd' = [cmd EXCEPT !.pc = "backupKeys", !.todo = cmd.done, !.done = <<>>]
    /\ UNCHANGED <<parts, listed, stores, launchers, binary, backups, others>>

(* readCredentialBackup of every target *)
BackupKeys ==
    /\ At("backupKeys")
    /\ (Goto("commit") /\ Smooth) \/ (Unstage("failed") /\ Fault)
    /\ UNCHANGED <<host, others>>

(* AtomicWriteFile of every target in turn: an error before the rename, or one *)
(* after it, when the target that failed is not among those put back.          *)
Commit ==
    /\ At("commit")
    /\ \/ /\ cmd.todo # <<>> /\ Smooth
          /\ stores' = [stores EXCEPT ![Head(cmd.todo)] = cmd.staged[Head(cmd.todo)]]
          /\ cmd' = [cmd EXCEPT !.todo = Tail(@), !.done = Append(@, Head(cmd.todo))]
       \/ cmd.todo # <<>> /\ Fault /\ Goto("undo") /\ UNCHANGED stores
       \/ /\ cmd.todo # <<>> /\ Fault
          /\ stores' = [stores EXCEPT ![Head(cmd.todo)] = cmd.staged[Head(cmd.todo)]]
          /\ cmd' = [cmd EXCEPT !.pc = "undo", !.torn = TRUE]
       \/ /\ cmd.todo = <<>> /\ Smooth /\ UNCHANGED stores
          /\ cmd' = [cmd EXCEPT !.staged = NoKeys, !.saved = TRUE, !.todo = cmd.later,
                        !.pc = CASE cmd.op = "rotate" -> "reload" [] cmd.op = "resolve" -> "ok"
                                 [] OTHER -> "integrate"]
    /\ UNCHANGED <<parts, listed, stages, launchers, binary, backups, others>>

(* Mutated UndoKey: the store that was committed last is left as it is. *)
UndoAllButLast ==
    /\ At("undo") /\ cmd.done # <<>> /\ Smooth
    /\ stores' = [s \in Stores |-> IF \E i \in 1..Len(cmd.done) - 1 : cmd.done[i] = s
                                   THEN cmd.stores[s] ELSE stores[s]]
    /\ cmd' = [cmd EXCEPT !.done = <<>>]
    /\ UNCHANGED <<parts, listed, stages, launchers, binary, backups, others>>

(* rollbackCredentialGeneration, newest first; every one is tried. *)
UndoKey ==
    /\ At("undo") /\ cmd.done # <<>>
    /\ LET s == cmd.done[Len(cmd.done)]
           rest == SubSeq(cmd.done, 1, Len(cmd.done) - 1) IN
       \/ /\ stores' = [stores EXCEPT ![s] = cmd.stores[s]] /\ Smooth
          /\ cmd' = [cmd EXCEPT !.done = rest]
       \/ /\ UNCHANGED stores /\ Fault
          /\ cmd' = [cmd EXCEPT !.done = rest, !.torn = TRUE]
    /\ UNCHANGED <<parts, listed, stages, launchers, binary, backups, others>>

EndUndo ==
    /\ At("undo") /\ cmd.done = <<>>
    /\ Unstage("failed")
    /\ UNCHANGED <<host, others, faults>>

(* ReloadTencentDeployment: the key is saved whatever becomes of it. *)
Reload ==
    /\ At("reload")
    /\ (Goto("ok") /\ Smooth) \/ (Goto("failed") /\ Fault)
    /\ UNCHANGED <<host, others>>

(* The provider withdraws a key. *)
Revoke(k) ==
    /\ Cardinality(Keys \ valid) < MaxRevoked
    /\ valid' = valid \ {k}
    /\ UNCHANGED <<host, resolved, cmd, commands, faults, kills>>

-------------------------------------------------------------------------------
(* runFullBundle: the managed runtime, DSH, Codex and Tencent, the project of  *)
(* the working directory if there is one, and last the executable.  A step     *)
(* that finds its part in place leaves it; each init loads global.json and     *)
(* ends with a save of it.  (Rolling the runtime back after an error goes to   *)
(* another generation of it, see ManagedRuntime.)                              *)
Bundle(here) ==
    <<"runtime", "saveRuntime", "key", "dsh", "patch", "baseline", "dshReceipt", "saveDSH",
      "codex", "hooks", "codexReceipt", "saveCodex",
      "checkout", "containers", "manifest", "tencentReceipt", "saveTencent">>
    \o IF here THEN <<"project", "gitignore", "saveProject">> ELSE <<>>

BeginBundle ==
    \E here \in BOOLEAN :
        Begin("bundle", [Idle EXCEPT !.pc = "integrate", !.todo = Bundle(here), !.here = here])

Integrating(step) == At("integrate") /\ Step(step)

(* resolveDSHCredential, as the first step of dshInitWithPlan: a key in the    *)
(* environment that the provider refuses ends the bundle, as does an error.    *)
ResolveKey ==
    /\ Integrating("key")
    /\ \/ /\ Smooth
          /\ \E k \in Keys, env \in Keys \cup {None} : Resolves(k, env) /\
                cmd' = [cmd EXCEPT !.pc = "stage", !.key = k, !.later = Tail(cmd.todo),
                                   !.todo = Targets(FALSE), !.done = <<>>, !.stores = stores]
       \/ (\E env \in Keys : ~Accepted(env)) /\ Smooth /\ Goto("failed")
       \/ Fault /\ Goto("failed")
    /\ UNCHANGED <<host, others>>

(* A part is written, or the step fails; a directory may be left half-written. *)
Put(x) ==
    /\ \/ parts' = [parts EXCEPT ![x] = "whole"] /\ cmd' = Stepped /\ Smooth
       \/ /\ parts' \in {parts} \cup (IF x \in {"dsh", "codex", "project"} /\ parts[x] = "gone"
                                       THEN {[parts EXCEPT ![x] = "partial"]} ELSE {})
          /\ Goto("failed") /\ Fault
    /\ UNCHANGED <<listed, stores, stages, launchers, binary, backups, others>>

ApplyRuntime          == Integrating("runtime") /\ Put("runtime")
InstallDSHAdapter     == Integrating("dsh") /\ Put("dsh")
EnsureDSHProfilePatch == Integrating("patch") /\ Put("patch")
EnsureDSHBaseline     == Integrating("baseline") /\ Put("baseline")
InstallCodexAdapter   == Integrating("codex") /\ Put("codex")
MergeCodexHooks       == Integrating("hooks") /\ Put("hooks")
SetupProject          == \E x \in {"project", "gitignore"} : Integrating(x) /\ Put(x)

(* Mutated WriteReceipt: a receipt that is there is taken for a part that is. *)
WriteReceiptFirst ==
    \/ \E x \in Receipts : Integrating(x) /\ Put(x)
    \/ /\ Integrating("codex") /\ parts["codexReceipt"] = "whole"
       /\ cmd' = [cmd EXCEPT !.todo = Tail(Tail(@))]
       /\ UNCHANGED <<host, others, faults>>

(* WriteReceiptIfChanged *)
WriteReceipt == \E x \in Receipts : Integrating(x) /\ Put(x)

Names(step) ==
    CASE step = "saveRuntime" -> {"runtime"} [] step = "saveDSH" -> {"dshReceipt"}
      [] step = "saveCodex" -> {"codexReceipt"} [] step = "saveTencent" -> {"tencent", "tencentReceipt"}
      [] step = "saveProject" -> {"project"} [] OTHER -> {}

SaveGlobal(names) ==
    /\ parts' = [parts EXCEPT !["global"] = "whole"]
    /\ listed' = names \cup (IF parts["global"] = "whole" THEN listed ELSE {})

SaveState ==
    /\ At("integrate") /\ cmd.todo # <<>> /\ Names(Head(cmd.todo)) # {}
    /\ \/ SaveGlobal(Names(Head(cmd.todo))) /\ cmd' = Stepped /\ Smooth
       \/ Goto("failed") /\ Fault /\ UNCHANGED <<parts, listed>>
    /\ UNCHANGED <<stores, stages, launchers, binary, backups, others>>

(* TencentInit: services that answer are not deployed again. *)
Healthy ==
    /\ Integrating("checkout") /\ parts["containers"] = "whole"
    /\ cmd' = [cmd EXCEPT !.todo = SubSeq(@, 4, Len(@))]
    /\ UNCHANGED <<host, others, faults>>

(* EnsureTencentDeployment: the checkout, and its .env, where only a missing   *)
(* key is filled in; what is left of a removed one may be no checkout.         *)
Checkout ==
    /\ Integrating("checkout") /\ parts["containers"] # "whole"
    /\ \/ /\ parts' = [parts EXCEPT !["tencent"] = IF @ = "gone" THEN "partial" ELSE @]
          /\ stores' = [stores EXCEPT !["tencent"] = IF @ = None THEN cmd.key ELSE @]
          /\ cmd' = Stepped /\ Smooth
       \/ /\ Fault \/ (parts["tencent"] = "partial" /\ Smooth)
          /\ Goto("failed") /\ UNCHANGED <<parts, stores>>
    /\ UNCHANGED <<listed, stages, launchers, binary, backups, others>>

(* the services are started, and last the manifest is written, with the images *)
(* of the containers that can be inspected.                                    *)
StartServices == Integrating("containers") /\ Put("containers")
WriteManifest ==
    /\ Integrating("manifest")
    /\ \/ /\ parts' = [parts EXCEPT !["tencent"] = "whole"] /\ resolved' \in BOOLEAN
          /\ cmd' = Stepped /\ Smooth
       \/ Goto("failed") /\ Fault /\ UNCHANGED <<parts, resolved>>
    /\ UNCHANGED <<listed, stores, stages, launchers, binary, backups, valid, commands, kills>>

EndBundle ==
    /\ At("integrate") /\ cmd.todo = <<>>
    /\ Goto("latest")
    /\ UNCHANGED <<host, others, faults>>

-------------------------------------------------------------------------------
(* enablePermissions saves global.json, as it was read, and then writes the    *)
(* two launchers; disablePermissions removes them.                             *)
BeginPermissions ==
    \/ Begin("enable", [Idle EXCEPT !.pc = "record", !.todo = <<"dsh", "codex">>])
    \/ Begin("disable", [Idle EXCEPT !.pc = "disable", !.todo = <<"dsh", "codex">>])

RecordDirectory ==
    /\ At("record")
    /\ \/ SaveGlobal({}) /\ Goto("enable") /\ Smooth
       \/ Goto("failed") /\ Fault /\ UNCHANGED <<parts, listed>>
    /\ UNCHANGED <<stores, stages, launchers, binary, backups, others>>

(* What a failed Enable takes back: the launchers it made, not those it found. *)
UndoLaunchers == cmd.created

(* launcherWasCreatedByBaron: a launcher without the marker is the user's. *)
Foreign(l) == launchers[l] = "user"

(* writeLauncher refuses a foreign one. *)
EnableLauncher ==
    /\ At("enable") /\ cmd.todo # <<>>
    /\ LET l == Head(cmd.todo) IN
       \/ /\ ~Foreign(l) /\ Smooth
          /\ launchers' = [launchers EXCEPT ![l] = "baron"]
          /\ cmd' = [cmd EXCEPT !.todo = Tail(@),
                        !.created = IF launchers[l] = "none" THEN @ \cup {l} ELSE @]
       \/ /\ (Foreign(l) /\ Smooth) \/ Fault
          /\ launchers' = [x \in Launchers |-> IF x \in UndoLaunchers THEN "none" ELSE launchers[x]]
          /\ Goto("failed")
    /\ UNCHANGED <<parts, listed, stores, stages, binary, backups, others>>

(* Disable: the first launcher without the marker ends it. *)
DisableLauncher ==
    /\ At("disable") /\ cmd.todo # <<>>
    /\ LET l == Head(cmd.todo) IN
       \/ /\ ~Foreign(l) /\ Smooth
          /\ launchers' = [launchers EXCEPT ![l] = "none"]
          /\ cmd' = [cmd EXCEPT !.todo = Tail(@)]
       \/ ((Foreign(l) /\ Smooth) \/ Fault) /\ Goto("failed") /\ UNCHANGED launchers
    /\ UNCHANGED <<parts, listed, stores, stages, binary, backups, others>>

EndPermissions ==
    /\ cmd.pc \in {"enable", "disable"} /\ cmd.todo = <<>>
    /\ Goto("ok")
    /\ UNCHANGED <<host, others, faults>>

-------------------------------------------------------------------------------
(* uninstall.Execute.  Mutated Order: the backups before the executable. *)
OrderBackupsFirst ==
    <<"hooks", "gitignore", "patch", "key", "containers", "runtime", "global", "baseline", "codex", "dsh",
      "dshReceipt", "codexReceipt", "tencentReceipt", "project", "tencent",
      "backups", "executable", "permissions">>

Order ==
    <<"hooks", "gitignore", "patch", "key", "containers", "runtime", "global", "baseline", "codex", "dsh",
      "dshReceipt", "codexReceipt", "tencentReceipt", "project", "tencent",
      "executable", "backups", "permissions">>

RemovalSteps == Parts \cup {"key", "executable", "backups", "permissions"}

(* isBaronProjectRoot: a project that has lost its metadata is not Baron's. *)
Managed(here) == parts["project"] = "whole" /\ (Known("project") \/ here)

(* Mutated Covers: the files the runtime's state lists are no targets. *)
CoversButRuntime(step, purge, here) ==
    CASE step \in {"gitignore", "project"} -> Managed(here)
      [] step \in {"containers", "tencent"} -> Known("tencent")
      [] step \in Receipts -> Known(step)
      [] step = "runtime" -> FALSE
      [] OTHER -> TRUE

(* uninstallOptions and BuildPlan: what global.json names, and what is at a    *)
(* fixed place.                                                                *)
Covers(step, purge, here) ==
    CASE step \in {"gitignore", "project"} -> Managed(here)
      [] step \in {"containers", "tencent"} -> Known("tencent")
      [] step \in Receipts -> Known(step)
      [] step = "runtime" -> purge /\ Known("runtime")
      [] OTHER -> TRUE

Complete == (\A x \in Parts : parts[x] = "whole") /\ listed = Listable

(* again: it, or the first of the uninstalls in a row that it ends, began with *)
(* a complete installation.                                                    *)
BeginUninstall ==
    \E purge, here \in BOOLEAN :
        Begin("uninstall", [Idle EXCEPT
            !.pc = "remove", !.purge = purge, !.whole = Complete,
            !.again = Complete \/ (cmd.op = "uninstall" /\ cmd.again),
            !.todo = Chosen(Order, {step \in RemovalSteps : Covers(step, purge, here)})])

Removing(step) == At("remove") /\ Step(step)
Next1(warned) == cmd' = [Stepped EXCEPT !.warned = @ \/ warned]

(* A removal, of parts and of the keys that go with them: what is gone already *)
(* is skipped.                                                                 *)
Remove(xs, keys) ==
    /\ Smooth /\ Next1(FALSE)
    /\ parts' = [x \in Parts |-> IF x \in xs THEN "gone" ELSE parts[x]]
    /\ stores' = [s \in Stores |-> IF s \in keys THEN None ELSE stores[s]]
    /\ stages' = stages \ (keys \ {"dsh"})
    /\ UNCHANGED <<launchers, others>>

Kept == UNCHANGED <<listed, binary, backups>>

RemoveCodexHooks      == Removing("hooks") /\ Remove({"hooks"}, {}) /\ Kept
RemoveGitignoreRules  == Removing("gitignore") /\ Remove({"gitignore"}, {}) /\ Kept
RemoveDSHProfilePatch == Removing("patch") /\ Remove({"patch"}, {}) /\ Kept
RemoveDSHProviderKey  == Removing("key") /\ Remove({}, {"dsh"}) /\ Kept

(* What Docker offers: the deployment's compose file is there and its down     *)
(* works; each container can be inspected and has the deployment's labels.     *)
Docker == {"compose", "labels"}

(* A container is inspected only if the manifest has its images. *)
Reaches(docker) == "compose" \in docker \/ (resolved /\ "labels" \in docker)

(* What becomes of the containers. *)
Leaves(docker) ==
    IF parts["tencent"] # "whole" THEN {parts["containers"]}
    ELSE IF Reaches(docker) THEN {"gone"}
    ELSE {parts["containers"]} \cup (IF parts["containers"] = "whole" THEN {"partial"} ELSE {})

(* removeTencent: without the manifest, or out of Docker's reach, containers   *)
(* are left, all or some of them, which is reported but is no warning.         *)
RemoveTencent ==
    /\ Removing("containers") /\ Smooth
    /\ \E docker \in SUBSET Docker :
          /\ \E left \in Leaves(docker) :
                parts' = [x \in Parts |-> IF x = "containers" THEN left ELSE parts[x]]
          /\ cmd' = [Stepped EXCEPT !.docker = docker]
    /\ UNCHANGED <<listed, stores, stages, launchers, binary, backups, others>>

PurgeManagedRuntime == Removing("runtime") /\ Remove({"runtime"}, {"strix"}) /\ Kept

(* The plan's resources: global.json first, *)
RemoveGlobal ==
    Removing("global") /\ Remove({"global"}, {}) /\ listed' = {} /\ UNCHANGED <<binary, backups>>

RemoveResource ==
    \E x \in Receipts \cup {"dsh", "baseline", "codex", "project", "tencent"} :
        Removing(x) /\ Remove({x}, {x} \cap {"tencent"}) /\ Kept

(* the executable last; then its backups. *)
RemoveExecutable ==
    Removing("executable") /\ Remove({}, {}) /\ binary' = NoBinary /\ UNCHANGED <<listed, backups>>

RemoveBaronBackups ==
    Removing("backups") /\ Remove({}, {}) /\ backups' = {} /\ UNCHANGED <<listed, binary>>

(* permissions.Disable; its refusal is a warning. *)
RemoveLaunchers ==
    /\ Removing("permissions") /\ Smooth
    /\ launchers' = [l \in Launchers |->
          IF Foreign(l) \/ (l = "codex" /\ Foreign("dsh"))
          THEN launchers[l] ELSE "none"]
    /\ Next1(\E l \in Launchers : Foreign(l))
    /\ UNCHANGED <<parts, listed, stores, stages, binary, backups, others>>

(* A removal fails, a directory's half-way.  Of the containers and of the      *)
(* managed runtime it is noted and the rest goes on; any other ends the        *)
(* command.                                                                    *)
RemoveFails ==
    /\ At("remove") /\ cmd.todo # <<>> /\ Fault
    /\ LET step == Head(cmd.todo) IN
       /\ parts' \in {parts} \cup {[x \in Parts |-> IF x = step THEN "partial" ELSE parts[x]]}
       /\ parts' # parts =>
             step \in {"dsh", "codex", "project", "tencent", "runtime", "containers"} /\ parts[step] = "whole"
       /\ step = "containers" => parts["tencent"] = "whole"
       /\ IF step \in {"containers", "runtime", "permissions"} THEN Next1(TRUE) ELSE Goto("failed")
    /\ UNCHANGED <<listed, stores, stages, launchers, binary, backups, others>>

EndUninstall ==
    /\ At("remove") /\ cmd.todo = <<>>
    /\ Goto(IF cmd.warned THEN "failed" ELSE "ok")
    /\ UNCHANGED <<host, others, faults>>

-------------------------------------------------------------------------------
(* A command is killed: all it knew is gone, its staged keys are left. *)
Kill ==
    /\ ~Ended /\ kills < MaxKills
    /\ kills' = kills + 1
    /\ stages' = stages \cup {s \in Stores : cmd.staged[s] # None}
    /\ cmd' = [Idle EXCEPT !.pc = "dead", !.op = cmd.op, !.again = cmd.again]
    /\ UNCHANGED <<parts, listed, stores, launchers, binary, backups, resolved, valid, commands, faults>>

Next ==
    \/ BeginUpdate \/ Latest \/ CheckManifest \/ CheckSums \/ CheckLaunch
    \/ BackupBinary \/ ReplaceBinary \/ ValidateBinary \/ RestoreBinary
    \/ BeginRotate \/ BeginResolve \/ Stage \/ BackupKeys \/ Commit \/ UndoKey \/ EndUndo \/ Reload
    \/ \E k \in valid : Revoke(k)
    \/ BeginBundle \/ ApplyRuntime \/ ResolveKey \/ InstallDSHAdapter \/ EnsureDSHProfilePatch
    \/ EnsureDSHBaseline \/ InstallCodexAdapter \/ MergeCodexHooks \/ WriteReceipt \/ SaveState
    \/ Healthy \/ Checkout \/ StartServices \/ WriteManifest \/ SetupProject \/ EndBundle
    \/ BeginPermissions \/ RecordDirectory \/ EnableLauncher \/ DisableLauncher \/ EndPermissions
    \/ BeginUninstall \/ RemoveCodexHooks \/ RemoveGitignoreRules \/ RemoveDSHProfilePatch
    \/ RemoveDSHProviderKey \/ RemoveTencent \/ PurgeManagedRuntime \/ RemoveGlobal \/ RemoveResource
    \/ RemoveExecutable \/ RemoveBaronBackups \/ RemoveLaunchers \/ RemoveFails \/ EndUninstall
    \/ Kill

Spec == Init /\ [][Next]_vars

-------------------------------------------------------------------------------
(* An executable that was not validated in its place is being validated, or a  *)
(* backup of one that was is still there; none is missing unless an uninstall  *)
(* removed it.  So a kill at any point of UpdateBinary, also one followed by   *)
(* further updates or a failed uninstall, can be repaired by hand.             *)
BinaryRecoverable ==
    /\ binary # NoBinary /\ ~binary.checked =>
          cmd.pc \in {"validate", "restore"} \/ \E b \in backups : b.checked
    /\ binary = NoBinary => cmd.op = "uninstall"

(* The executable only ever becomes a release whose manifest, sums and launch  *)
(* were checked ("The target is not mutated until manifest, checksum, and      *)
(* binary launch validation all succeed", release.go:71-72), a newer one       *)
(* unless forced, or the backup of this very update.                           *)
OnlyVerifiedUpgrades ==
    [][binary'.release # binary.release /\ binary' # NoBinary /\ ~At("restore") =>
          /\ Genuine(binary'.release) /\ binary'.release.launches
          /\ binary'.release.version > binary.release.version \/ cmd.op = "install"]_vars

(* A rotation that reports success has put its key into every store it knows,  *)
(* whatever failed or killed rotations left in them; one that fails before     *)
(* that leaves every store as it found it and no staged file, unless the       *)
(* failure struck after a rename or the undoing failed as well ("All local     *)
(* targets are staged first and restored if a later target or bridge fails",   *)
(* strix_credentials.go:61-63).                                                *)
RotationAtomic ==
    cmd.op \in {"rotate", "resolve", "bundle"} /\ cmd.key # None =>
        /\ cmd.saved =>
              /\ stores["dsh"] = cmd.key
              /\ Known("runtime") => stores["strix"] = cmd.key
              /\ cmd.op = "rotate" /\ Known("tencent") /\ stores["tencent"] # None
                    => stores["tencent"] = cmd.key
        /\ At("failed") /\ ~cmd.saved /\ ~cmd.torn =>
              stores = cmd.stores /\ cmd.staged = NoKeys

(* A bundle that reports success has put every part in place and into          *)
(* global.json, where the uninstaller will look for it, whatever kills, errors *)
(* and half-done uninstalls came before it.  (Of Tencent's deployment, see     *)
(* DeploymentOwned.)                                                           *)
BundleComplete ==
    cmd.op = "bundle" /\ At("ok") =>
        /\ \A x \in Parts \ {"tencent"} :
              (x \in {"project", "gitignore"} => cmd.here) => parts[x] = "whole"
        /\ Listable \ (IF cmd.here THEN {} ELSE {"project"}) \subseteq listed
        /\ stores["dsh"] = cmd.key /\ stores["strix"] = cmd.key

(* The same of Tencent's deployment, whose manifest is all the uninstaller     *)
(* goes by (removeTencent).                                                    *)
DeploymentOwned == cmd.op = "bundle" /\ At("ok") => parts["tencent"] = "whole"

(* What the uninstaller finds without global.json. *)
FixedParts == {"hooks", "patch", "global", "dsh", "baseline", "codex"}

(* An uninstall that reports success, also one after uninstalls that failed or *)
(* were killed, has left nothing at a fixed place: no hook, patch, adapter or  *)
(* state file, no key of DSH's, no launcher, no executable and no backup of    *)
(* one.  One that started from a complete installation has left no other part  *)
(* either, but the managed runtime unless it purged, and containers for which  *)
(* Docker does not offer what removeTencent goes by.                           *)
UninstallComplete ==
    cmd.op = "uninstall" /\ At("ok") =>
        /\ \A x \in FixedParts : parts[x] = "gone"
        /\ stores["dsh"] = None
        /\ \A l \in Launchers : launchers[l] # "baron"
        /\ binary = NoBinary /\ backups = {}
        /\ cmd.whole =>
              /\ \A x \in Parts : \/ parts[x] = "gone"
                                  \/ x = "runtime" /\ ~cmd.purge
                                  \/ x = "containers" /\ ~Reaches(cmd.docker)
              /\ stores["tencent"] = None /\ (cmd.purge => stores["strix"] = None)

(* The same of a purge that is repeated until it reports success ("The command *)
(* is idempotent", docs/superpowers/specs/                                     *)
(* 2026-08-27-tui-uninstall-auto-approval-design.md:47).                       *)
UninstallRepeatable ==
    cmd.op = "uninstall" /\ At("ok") /\ cmd.again /\ cmd.purge =>
        \A x \in Parts \ {"containers"} : parts[x] = "gone"

(* An uninstall of a complete installation that reports success has removed    *)
(* Tencent's containers ("The default removes [...] Tencent                    *)
(* containers/deployment", lines 40 to 42 there).                              *)
ContainersRemoved ==
    cmd.op = "uninstall" /\ At("ok") /\ cmd.whole => parts["containers"] = "gone"

================================================================================
