-------------------------- MODULE ProvisioningProofs --------------------------
(* Identity, setup and restore, for any number of commands at once, projects,  *)
(* kills and failures.  The inductive invariant follows each command along its *)
(* steps: the identity it has so far, the file it works on, its receipt.  What *)
(* makes the identity one piece is that the provider has one user at a time    *)
(* and never gives an id twice: a key whose user is there when it is verified  *)
(* belongs to the user that was found, since any other is gone for good.       *)
EXTENDS Provisioning, TLAPS

(* The commands that have yet to make a user.                                  *)
Early == {"idle", "deploy", "user", "userCreate"}
Fresh == {p \in Procs : run[p].pc \in Early}

(* The steps of each command; the steps at which it has made nothing that its  *)
(* receipt holds.                                                              *)
IdentitySteps == {"deploy", "user", "userCreate", "key", "team", "teamCreate", "verify", "rollback"}
Ends == {"ok", "failed", "dead"}
StepsOf(op) ==
    IF op = "setup" THEN {"agent", "agentCreate", "env", "save"} \cup Ends
    ELSE IF op = "init" THEN {"idle", "save"} \cup IdentitySteps \cup Ends
    ELSE {"bindings", "move", "install"} \cup IdentitySteps \cup Ends
Bare == {"idle", "deploy", "agent", "agentCreate", "env", "move", "install", "ok", "failed"}

(* One piece: what IdentityConsistent says of global.json.                     *)
Sound(identity) ==
    identity # NoIdentity =>
        /\ identity.key.user = identity.user.user
        /\ identity.team.user = identity.user.user

(* A key in a file belongs to a user that was made before.                     *)
KeyKnown(key, fresh) == key = None \/ key.user \in Makers \ fresh

StateKnown(state, fresh) ==
    /\ DOMAIN state = DOMAIN EmptyState
    /\ KeyKnown(state.identity.key, fresh)

StateSound(state, fresh) == StateKnown(state, fresh) /\ Sound(state.identity)

(* As long as the user of a key is there it is the one that was found or made: *)
(* the provider has one at a time and never gives an id twice.                 *)
Matches(key, identity, at) ==
    User(key.user) \in at => key.user = identity.user.user

(* The identity a command has so far.                                          *)
IdentitySoFar(rec, fresh, at) ==
    /\ rec.pc \in {"key", "team", "teamCreate", "verify"} =>
          \E m \in Makers \ fresh : rec.identity.user = User(m)
    /\ rec.pc = "key" =>
          rec.state.identity.key = None \/ Matches(rec.state.identity.key, rec.identity, at)
    /\ rec.pc \in {"team", "teamCreate", "verify"} =>
          rec.identity.key.user \in Makers \ fresh /\ Matches(rec.identity.key, rec.identity, at)
    /\ rec.pc = "verify" => rec.identity.team.user = rec.identity.user.user
    /\ rec.pc = "bindings" \/ (rec.pc = "save" /\ rec.command.op = "init") =>
          rec.identity.key.user \in Makers \ fresh /\ Sound(rec.identity)

RestoreOf(op) == op \in {"restore", "replace"}

(* What a command works on: a restore on the archive until it has found its    *)
(* account and all of its bindings, every other one on a global.json.          *)
StateSoFar(rec, fresh) ==
    IF RestoreOf(rec.command.op) /\ rec.pc \notin {"move", "install", "ok"}
    THEN rec.state = Archive \/ rec.pc \in {"failed", "dead"}
    ELSE StateSound(rec.state, fresh)

RestoredSoFar(rec) ==
    RestoreOf(rec.command.op) /\ rec.pc \in {"move", "install", "ok"} =>
        /\ rec.state.identity.user = Archive.identity.user
        /\ rec.state.identity.team = Archive.identity.team
        /\ rec.state.bindings = Archive.bindings

(* The receipt: only what the command made, and all of it but what a lost      *)
(* answer, a failed deletion or a key without an id left.                      *)
Receipt(p, rec, at) ==
    /\ \A x \in rec.created : x.maker = p
    /\ rec.pc \in Bare \/ rec.command.op = "setup" => rec.created = {}
    /\ rec.pc = "idle" => ~rec.leak /\ ~rec.committed
    /\ ~rec.leak /\ ~rec.committed =>
          \A x \in at : x.maker = p => x.kind = "agent" \/ x \in rec.created

Shaped(rec) ==
    /\ DOMAIN rec = DOMAIN Idle
    /\ DOMAIN rec.identity = DOMAIN NoIdentity
    /\ rec.leak \in BOOLEAN /\ rec.committed \in BOOLEAN
    /\ rec.command.op \in {"init", "setup", "restore", "replace"}
    /\ rec.pc \in StepsOf(rec.command.op)

CommandOk(p, rec, fresh, at) ==
    /\ Shaped(rec)
    /\ IdentitySoFar(rec, fresh, at)
    /\ StateSoFar(rec, fresh)
    /\ RestoredSoFar(rec)
    /\ Receipt(p, rec, at)

(* The provider has one user at most, whose maker is past making it.           *)
Users(at) == {x \in at : x.kind = "user"}
OneUser ==
    /\ \A x \in Users(remote) : \E m \in Makers \ Fresh : x = User(m)
    /\ \A x, y \in Users(remote) : x = y

Disk ==
    /\ DOMAIN home = {"there", "state"}
    /\ StateSound(home.state, Fresh)
    /\ \A s \in aside : StateSound(s, Fresh)

ProvisioningInvariant ==
    /\ run = [p \in Procs |-> run[p]]
    /\ OneUser
    /\ Disk
    /\ \A p \in Procs : CommandOk(p, run[p], Fresh, remote)

-------------------------------------------------------------------------------
(* The fewer commands may still make a user, the more is known.                *)
LEMMA FewerFresh ==
    ASSUME NEW p \in Procs, NEW rec, NEW f, NEW g \in SUBSET f, NEW at, CommandOk(p, rec, f, at)
    PROVE  CommandOk(p, rec, g, at)
<1>1. \A key : KeyKnown(key, f) => KeyKnown(key, g) BY DEF KeyKnown
<1>2. \A m \in Makers \ f : m \in Makers \ g OBVIOUS
<1>3. IdentitySoFar(rec, g, at) BY <1>1, <1>2 DEF CommandOk, IdentitySoFar
<1>4. StateSoFar(rec, g) BY <1>1 DEF CommandOk, StateSoFar, StateSound, StateKnown
<1> QED BY <1>3, <1>4 DEF CommandOk

LEMMA FewerFreshState ==
    ASSUME NEW f, NEW g \in SUBSET f, NEW state, StateSound(state, f)
    PROVE  StateSound(state, g)
BY DEF StateSound, StateKnown, KeyKnown

(* A command stays as it is while another one makes something, or something is *)
(* deleted.                                                                    *)
LEMMA OtherKept ==
    ASSUME NEW q \in Procs, NEW rec, NEW f, NEW at, NEW to, CommandOk(q, rec, f, at),
           NEW p \in Procs, p # q,
           \A x \in to \ at : x.maker = p /\ (x.kind = "user" => p \in f)
    PROVE  CommandOk(q, rec, f, to)
<1>1. ASSUME NEW key, key.user \in Makers \ f, NEW identity, Matches(key, identity, at)
      PROVE  Matches(key, identity, to)
  <2>1. User(key.user) \in to => User(key.user) \in at
    <3>1. User(key.user).maker = key.user /\ User(key.user).kind = "user" BY DEF User
    <3> QED BY <3>1, <1>1
  <2> QED BY <1>1, <2>1 DEF Matches
<1>2. rec.pc = "key" => KeyKnown(rec.state.identity.key, f)
  <2>1. Archive.identity.key = None
    BY DEF Archive, OldState, OldIdentity
  <2> QED BY <2>1 DEF CommandOk, StateSoFar, StateSound, StateKnown, KeyKnown
<1>3. IdentitySoFar(rec, f, to)
  <2>1. rec.pc = "key" =>
          rec.state.identity.key = None \/ Matches(rec.state.identity.key, rec.identity, to)
    BY <1>1, <1>2 DEF CommandOk, IdentitySoFar, KeyKnown
  <2>2. rec.pc \in {"team", "teamCreate", "verify"} =>
          rec.identity.key.user \in Makers \ f /\ Matches(rec.identity.key, rec.identity, to)
    BY <1>1 DEF CommandOk, IdentitySoFar
  <2> QED BY <2>1, <2>2 DEF CommandOk, IdentitySoFar
<1>4. Receipt(q, rec, to) BY DEF CommandOk, Receipt
<1> QED BY <1>3, <1>4 DEF CommandOk

(* A command moves on: what has to be shown of it, of the provider and of the  *)
(* disk.                                                                       *)
LEMMA CommandMoves ==
    ASSUME ProvisioningInvariant, NEW p \in Procs, NEW rec, run' = [run EXCEPT ![p] = rec],
           rec.pc \in Early => run[p].pc \in Early,
           \A x \in remote' \ remote : x.maker = p /\ (x.kind = "user" => p \in Fresh),
           CommandOk(p, rec, Fresh', remote'), OneUser', Disk'
    PROVE  ProvisioningInvariant'
<1>1. /\ run' = [q \in Procs |-> IF q = p THEN rec ELSE run[q]]
  BY DEF ProvisioningInvariant
<1>2. Fresh' \subseteq Fresh BY <1>1 DEF Fresh
<1>3. ASSUME NEW q \in Procs PROVE CommandOk(q, run'[q], Fresh', remote')
  <2>1. CASE q = p BY <1>1, <2>1
  <2>2. CASE q # p
    <3>1. CommandOk(q, run[q], Fresh, remote) BY DEF ProvisioningInvariant
    <3>2. CommandOk(q, run[q], Fresh, remote') BY <2>2, <3>1, OtherKept
    <3>3. CommandOk(q, run[q], Fresh', remote') BY <3>2, <1>2, FewerFresh
    <3> QED BY <1>1, <2>2, <3>3
  <2> QED BY <2>1, <2>2
<1>4. run' = [q \in Procs |-> run'[q]] BY <1>1
<1> QED BY <1>3, <1>4 DEF ProvisioningInvariant

(* The same when no user is made: everything known stays known.                *)
LEMMA CommandGoesOn ==
    ASSUME ProvisioningInvariant, NEW p \in Procs, NEW rec, run' = [run EXCEPT ![p] = rec],
           rec.pc \in Early => run[p].pc \in Early,
           \A x \in remote' \ remote : x.maker = p /\ x.kind # "user",
           CommandOk(p, rec, Fresh, remote'),
           DOMAIN home' = {"there", "state"}, StateSound(home'.state, Fresh),
           \A s \in aside' : StateSound(s, Fresh)
    PROVE  ProvisioningInvariant'
<1>1. run' = [q \in Procs |-> IF q = p THEN rec ELSE run[q]]
  BY DEF ProvisioningInvariant
<1>2. Fresh' \subseteq Fresh BY <1>1 DEF Fresh
<1>3. Disk' BY <1>2, FewerFreshState DEF Disk
<1>4. OneUser'
  <2>1. Users(remote') \subseteq Users(remote) BY DEF Users
  <2>2. (\A x \in Users(remote') : \E m \in Makers \ Fresh' : x = User(m))
        /\ (\A x, y \in Users(remote') : x = y)
    BY <1>2, <2>1 DEF ProvisioningInvariant, OneUser
  <2> QED BY <2>2 DEF OneUser
<1>5. CommandOk(p, rec, Fresh', remote') BY <1>2, FewerFresh
<1> QED BY <1>3, <1>4, <1>5, CommandMoves

(* And when nothing but the command itself changes.                            *)
LEMMA CommandAlone ==
    ASSUME ProvisioningInvariant, NEW p \in Procs, NEW rec, run' = [run EXCEPT ![p] = rec],
           rec.pc \in Early => run[p].pc \in Early,
           remote' = remote, home' = home, aside' = aside,
           CommandOk(p, rec, Fresh, remote)
    PROVE  ProvisioningInvariant'
BY CommandGoesOn DEF ProvisioningInvariant, Disk

LEMMA ProvisioningInit == Init => ProvisioningInvariant
<1> SUFFICES ASSUME Init PROVE ProvisioningInvariant OBVIOUS
<1>1. run = [p \in Procs |-> Idle] BY DEF Init
<1>2. Fresh = Procs BY <1>1 DEF Fresh, Idle, Early
<1>3. Old \in Makers \ Fresh BY <1>2, ProvisioningConstants DEF Makers
<1>4. OldUser = User(Old) /\ OldUser.kind = "user" /\ OldUser.maker = Old BY DEF OldUser, User
<1>5. /\ OldTeam.kind = "team" /\ OldTeam.user = Old /\ OldTeam.maker = Old
      /\ OldKey.kind = "key" /\ OldKey.user = Old /\ OldKey.maker = Old
      /\ OldUser.user = Old
  BY DEF OldTeam, OldKey, OldUser, Team, Key, User
<1>6. \A pr \in Projects : /\ OldBindings[pr].agent.kind = "agent"
                           /\ OldBindings[pr].agent.maker = Old
  BY DEF OldBindings, Agent
<1>7. \A x \in remote : x.maker = Old /\ (x.kind = "user" => x = OldUser)
  BY <1>4, <1>5, <1>6 DEF Init
<1>8. OneUser BY <1>3, <1>4, <1>7 DEF OneUser, Users
<1>9. StateSound(EmptyState, Fresh)
  BY DEF StateSound, StateKnown, KeyKnown, Sound, EmptyState, NoIdentity
<1>10. StateSound(OldState, Fresh)
  <2>1. OldState.identity.key = OldKey /\ OldState.identity.user = OldUser
        /\ OldState.identity.team = OldTeam
    BY DEF OldState, OldIdentity
  <2>2. DOMAIN OldState = DOMAIN EmptyState BY DEF OldState, EmptyState
  <2> QED BY <2>1, <2>2, <1>3, <1>5 DEF StateSound, StateKnown, KeyKnown, Sound
<1>11. Disk BY <1>9, <1>10 DEF Disk, Init
<1>12. ASSUME NEW p \in Procs PROVE CommandOk(p, Idle, Fresh, remote)
  <2>1. /\ Idle.pc = "idle" /\ Idle.command.op = "init" /\ Idle.created = {}
        /\ Idle.leak = FALSE /\ Idle.committed = FALSE /\ Idle.state = EmptyState
        /\ Idle.identity = NoIdentity
    BY DEF Idle
  <2>2. Shaped(Idle) BY <2>1 DEF Shaped, StepsOf
  <2>3. IdentitySoFar(Idle, Fresh, remote) BY <2>1 DEF IdentitySoFar
  <2>4. StateSoFar(Idle, Fresh) BY <2>1, <1>9 DEF StateSoFar, RestoreOf
  <2>5. RestoredSoFar(Idle) BY <2>1 DEF RestoredSoFar
  <2>6. \A x \in remote : x.maker # p BY <1>7, ProvisioningConstants
  <2>7. Receipt(p, Idle, remote) BY <2>1, <2>6 DEF Receipt, Bare
  <2> QED BY <2>2, <2>3, <2>4, <2>5, <2>7 DEF CommandOk
<1> QED BY <1>1, <1>8, <1>11, <1>12 DEF ProvisioningInvariant

-------------------------------------------------------------------------------
(* A record that differs from another in its step only, as far as the          *)
(* invariant is concerned.                                                     *)
Alike(rec, old, pc) ==
    /\ DOMAIN rec = DOMAIN Idle /\ rec.pc = pc
    /\ rec.command = old.command /\ rec.state = old.state /\ rec.identity = old.identity
    /\ rec.created = old.created /\ rec.leak = old.leak /\ rec.committed = old.committed

LEMMA GoesTo ==
    ASSUME ProvisioningInvariant, NEW p \in Procs, NEW pc, Goto(p, pc) \/ Fault(p, pc)
    PROVE  \E rec : run' = [run EXCEPT ![p] = rec] /\ Alike(rec, run[p], pc)
<1>1. DOMAIN run[p] = DOMAIN Idle /\ run = [q \in Procs |-> run[q]]
  BY DEF ProvisioningInvariant, CommandOk, Shaped
<1>2. CASE Goto(p, pc)
  <2> DEFINE rec == [run[p] EXCEPT !.pc = pc]
  <2>1. run' = [run EXCEPT ![p] = rec] BY <1>1, <1>2 DEF Goto
  <2>2. Alike(rec, run[p], pc) BY <1>1 DEF Alike, Idle
  <2> QED BY <2>1, <2>2
<1>3. CASE Fault(p, pc)
  <2> DEFINE rec == [run[p] EXCEPT !.pc = pc, !.fault = TRUE]
  <2>1. run' = [run EXCEPT ![p] = rec] BY <1>1, <1>3 DEF Fault
  <2>2. Alike(rec, run[p], pc) BY <1>1 DEF Alike, Idle
  <2> QED BY <2>1, <2>2
<1> QED BY <1>2, <1>3

(* A command that had begun and failed before it made anything, or after it    *)
(* had committed.                                                              *)
LEMMA FailsBare ==
    ASSUME NEW p \in Procs, NEW old, NEW rec, NEW f, NEW at, CommandOk(p, old, f, at), old.created = {},
           old.pc # "idle", Alike(rec, old, "failed")
    PROVE  CommandOk(p, rec, f, at)
<1>1. Shaped(rec) BY DEF CommandOk, Shaped, Alike, StepsOf, Ends, IdentitySteps
<1>2. IdentitySoFar(rec, f, at) BY DEF Alike, IdentitySoFar
<1>3. StateSoFar(rec, f) BY DEF CommandOk, Alike, StateSoFar, RestoreOf
<1>4. RestoredSoFar(rec) BY DEF Alike, RestoredSoFar
<1>5. Receipt(p, rec, at) BY DEF CommandOk, Alike, Receipt
<1> QED BY <1>1, <1>2, <1>3, <1>4, <1>5 DEF CommandOk

(* One that fails while it makes an identity, or is about to record it.        *)
Undoable(rec) ==
    \/ rec.pc \in {"user", "userCreate", "key", "team", "teamCreate", "verify", "bindings"}
    \/ rec.pc = "save" /\ rec.command.op = "init"

LEMMA FailsUndone ==
    ASSUME NEW p \in Procs, NEW old, NEW rec, NEW f, NEW at, CommandOk(p, old, f, at),
           Undoable(old), Alike(rec, old, "rollback")
    PROVE  CommandOk(p, rec, f, at)
<1>1. Shaped(rec) /\ rec.command.op # "setup"
  BY DEF CommandOk, Shaped, Alike, StepsOf, Ends, IdentitySteps, Undoable
<1>2. IdentitySoFar(rec, f, at) BY DEF Alike, IdentitySoFar
<1>3. StateSoFar(rec, f)
  <2>1. old.pc \notin {"move", "install", "ok", "failed", "dead"} BY DEF Undoable
  <2> QED BY <2>1 DEF CommandOk, Alike, StateSoFar
<1>4. RestoredSoFar(rec) BY DEF Alike, RestoredSoFar
<1>5. Receipt(p, rec, at) BY <1>1 DEF CommandOk, Alike, Receipt, Bare
<1> QED BY <1>1, <1>2, <1>3, <1>4, <1>5 DEF CommandOk

(* A step that failed, with nothing else changed.                              *)
LEMMA FaultKeeps ==
    ASSUME ProvisioningInvariant, NEW p \in Procs, NEW pc, Goto(p, pc) \/ Fault(p, pc),
           \/ pc = "failed" /\ run[p].pc # "idle" /\ run[p].created = {}
           \/ pc = "rollback" /\ Undoable(run[p]),
           remote' = remote, home' = home, aside' = aside
    PROVE  ProvisioningInvariant'
<1>1. PICK rec : run' = [run EXCEPT ![p] = rec] /\ Alike(rec, run[p], pc) BY GoesTo
<1>2. CommandOk(p, run[p], Fresh, remote) BY DEF ProvisioningInvariant
<1>3. CommandOk(p, rec, Fresh, remote) BY <1>1, <1>2, FailsBare, FailsUndone
<1>4. rec.pc \notin Early BY <1>1 DEF Alike, Early
<1> QED BY <1>1, <1>3, <1>4, CommandAlone

-------------------------------------------------------------------------------
LEMMA BeginKeeps ==
    ASSUME ProvisioningInvariant, NEW p \in Procs, NEW c \in CommandsOf[p], Begin(p, c)
    PROVE  ProvisioningInvariant'
<1>1. c \in Commands BY ProvisioningConstants
<1>2. c.op \in {"init", "setup", "restore", "replace"} BY <1>1 DEF Commands
<1> DEFINE state == IF c.op \in {"restore", "replace"} THEN Archive
                    ELSE IF home.there THEN home.state ELSE EmptyState
           pc == IF c.op = "setup" THEN "agent" ELSE "deploy"
           rec == [Idle EXCEPT !.pc = pc, !.command = c, !.existed = home.there, !.state = state]
<1>3. run' = [run EXCEPT ![p] = rec] /\ remote' = remote /\ home' = home /\ aside' = aside
      /\ run[p].pc = "idle"
  BY DEF Begin, disk, At
<1>4. /\ DOMAIN rec = DOMAIN Idle /\ rec.pc = pc /\ rec.command = c /\ rec.state = state
      /\ rec.identity = NoIdentity /\ rec.created = {} /\ rec.leak = FALSE /\ rec.committed = FALSE
  BY DEF Idle
<1> HIDE DEF rec
<1>5. pc \in {"agent", "deploy"} /\ (c.op = "setup" <=> pc = "agent") OBVIOUS
<1>6. StateSound(EmptyState, Fresh)
  BY DEF StateSound, StateKnown, KeyKnown, Sound, EmptyState, NoIdentity
<1>7. RestoreOf(c.op) => state = Archive BY DEF RestoreOf
<1>8. ~RestoreOf(c.op) => StateSound(state, Fresh)
  BY <1>6 DEF RestoreOf, ProvisioningInvariant, Disk
<1> HIDE DEF state, pc
<1>9. Shaped(rec) BY <1>2, <1>4, <1>5 DEF Shaped, StepsOf, IdentitySteps
<1>10. IdentitySoFar(rec, Fresh, remote) BY <1>4, <1>5 DEF IdentitySoFar
<1>11. StateSoFar(rec, Fresh) BY <1>4, <1>5, <1>7, <1>8 DEF StateSoFar
<1>12. RestoredSoFar(rec) BY <1>4, <1>5 DEF RestoredSoFar
<1>13. Receipt(p, rec, remote)
  <2>1. CommandOk(p, run[p], Fresh, remote) BY DEF ProvisioningInvariant
  <2> QED BY <2>1, <1>3, <1>4, <1>5 DEF CommandOk, Receipt, Bare
<1>14. CommandOk(p, rec, Fresh, remote) BY <1>9, <1>10, <1>11, <1>12, <1>13 DEF CommandOk
<1> QED BY <1>3, <1>14, CommandAlone DEF Early

-------------------------------------------------------------------------------
LEMMA DeployKeeps ==
    ASSUME ProvisioningInvariant, NEW p \in Procs, Deploy(p) PROVE ProvisioningInvariant'
<1>1. /\ run[p].pc = "deploy" /\ remote' = remote /\ aside' = aside
      /\ home' = home \/ home' = [home EXCEPT !.there = TRUE]
      /\ Goto(p, "user") \/ Fault(p, "user") \/ Goto(p, "failed") \/ Fault(p, "failed")
  BY DEF Deploy, Checkout, disk, At
<1>2. PICK pc \in {"user", "failed"} : Goto(p, pc) \/ Fault(p, pc) BY <1>1
<1>3. PICK rec : run' = [run EXCEPT ![p] = rec] /\ Alike(rec, run[p], pc) BY <1>2, GoesTo
<1>4. CommandOk(p, run[p], Fresh, remote) BY DEF ProvisioningInvariant
<1>5. run[p].created = {} BY <1>1, <1>4 DEF CommandOk, Receipt, Bare
<1>6. CommandOk(p, rec, Fresh, remote)
  <2>1. CASE pc = "failed" BY <1>1, <1>3, <1>4, <1>5, <2>1, FailsBare
  <2>2. CASE pc = "user"
    <3> USE <1>1, <1>3, <1>4, <2>2 DEF CommandOk, Alike
    <3>1. Shaped(rec) BY DEF Shaped, StepsOf, Ends, IdentitySteps
    <3>2. IdentitySoFar(rec, Fresh, remote) BY DEF IdentitySoFar
    <3>3. StateSoFar(rec, Fresh) BY DEF StateSoFar
    <3>4. RestoredSoFar(rec) BY DEF RestoredSoFar
    <3>5. Receipt(p, rec, remote) BY <1>5 DEF Receipt
    <3> QED BY <3>1, <3>2, <3>3, <3>4, <3>5 DEF CommandOk
  <2> QED BY <2>1, <2>2
<1>7. DOMAIN home' = {"there", "state"} /\ home'.state = home.state
  BY <1>1 DEF ProvisioningInvariant, Disk
<1> QED BY <1>1, <1>3, <1>6, <1>7, CommandGoesOn DEF ProvisioningInvariant, Disk, Early

(* The record of a command that has found or made a part of its identity.      *)
LEMMA IdentifyFields ==
    ASSUME ProvisioningInvariant, NEW p \in Procs, NEW part \in {"user", "key", "team"}, NEW x, NEW pc,
           Identify(p, part, x, pc)
    PROVE  \E rec :
              /\ run' = [run EXCEPT ![p] = rec]
              /\ DOMAIN rec = DOMAIN Idle /\ rec.pc = pc
              /\ rec.command = run[p].command /\ rec.state = run[p].state
              /\ rec.created = run[p].created /\ rec.leak = run[p].leak
              /\ rec.committed = run[p].committed
              /\ rec.identity = [run[p].identity EXCEPT ![part] = x]
<1>1. DOMAIN run[p] = DOMAIN Idle /\ run = [q \in Procs |-> run[q]]
  BY DEF ProvisioningInvariant, CommandOk, Shaped
<1> DEFINE rec == [run[p] EXCEPT !.pc = pc, !.identity = [@ EXCEPT ![part] = x]]
<1>2. run' = [run EXCEPT ![p] = rec] BY <1>1 DEF Identify
<1>3. /\ DOMAIN rec = DOMAIN Idle /\ rec.pc = pc
      /\ rec.command = run[p].command /\ rec.state = run[p].state
      /\ rec.created = run[p].created /\ rec.leak = run[p].leak
      /\ rec.committed = run[p].committed
      /\ rec.identity = [run[p].identity EXCEPT ![part] = x]
  BY <1>1 DEF Idle
<1> HIDE DEF rec
<1> QED BY <1>2, <1>3

(* And of one that has made it, with the receipt or without.                   *)
Maker(rec, old, part, x, pc, receipt) ==
    /\ DOMAIN rec = DOMAIN Idle /\ rec.pc = pc
    /\ rec.command = old.command /\ rec.state = old.state
    /\ rec.created = IF receipt THEN old.created \cup {x} ELSE old.created
    /\ rec.leak \in BOOLEAN /\ (~rec.leak => ~old.leak /\ receipt)
    /\ rec.committed = old.committed
    /\ rec.identity = [old.identity EXCEPT ![part] = x]

LEMMA IdentityMadeFields ==
    ASSUME ProvisioningInvariant, NEW p \in Procs, NEW part, NEW x, NEW pc,
           NEW receipt \in BOOLEAN, IdentityMade(p, part, x, pc, receipt)
    PROVE  \E rec : run' = [run EXCEPT ![p] = rec] /\ Maker(rec, run[p], part, x, pc, receipt)
<1>1. DOMAIN run[p] = DOMAIN Idle /\ run = [q \in Procs |-> run[q]]
  BY DEF ProvisioningInvariant, CommandOk, Shaped
<1> DEFINE made == IF receipt THEN run[p].created \cup {x} ELSE run[p].created
           rec == [run[p] EXCEPT !.pc = pc, !.identity = [@ EXCEPT ![part] = x],
                                 !.created = made, !.leak = @ \/ ~receipt]
<1>2. run' = [run EXCEPT ![p] = rec] BY <1>1, ZenonT(40) DEF IdentityMade
<1>3. /\ DOMAIN rec = DOMAIN Idle /\ rec.pc = pc
      /\ rec.command = run[p].command /\ rec.state = run[p].state
      /\ rec.created = made /\ rec.leak = (run[p].leak \/ ~receipt)
      /\ rec.committed = run[p].committed
      /\ rec.identity = [run[p].identity EXCEPT ![part] = x]
  BY <1>1 DEF Idle
<1> HIDE DEF rec
<1>4. run[p].leak \in BOOLEAN BY DEF ProvisioningInvariant, CommandOk, Shaped
<1>5. rec.leak \in BOOLEAN /\ (~rec.leak => ~run[p].leak /\ receipt) BY <1>3, <1>4
<1> QED BY <1>2, <1>3, <1>5 DEF Maker

(* What an identity step leaves to be shown of the command: its own part of    *)
(* the identity, and that the receipt has what it made.                        *)
LEMMA IdentityGoesOn ==
    ASSUME NEW p \in Procs, NEW old, NEW rec, NEW f, NEW at, NEW to, CommandOk(p, old, f, at),
           old.pc \in {"user", "userCreate", "key", "team", "teamCreate"},
           DOMAIN rec = DOMAIN Idle, rec.command = old.command, rec.state = old.state,
           rec.committed = old.committed, rec.leak \in BOOLEAN, ~rec.leak => ~old.leak,
           DOMAIN rec.identity = DOMAIN NoIdentity,
           rec.pc \in {"userCreate", "key", "team", "teamCreate", "verify"},
           old.created \subseteq rec.created, \A x \in rec.created \ old.created : x.maker = p,
           \A x \in to \ at : x \in rec.created \/ rec.leak,
           NEW g \in SUBSET f, IdentitySoFar(rec, g, to)
    PROVE  CommandOk(p, rec, g, to)
<1>1. Shaped(rec) /\ rec.command.op # "setup"
  BY DEF CommandOk, Shaped, StepsOf, Ends, IdentitySteps
<1>2. StateSoFar(rec, g)
  <2>1. StateSoFar(rec, f) BY DEF CommandOk, StateSoFar
  <2> QED BY <2>1, FewerFreshState DEF StateSoFar
<1>3. RestoredSoFar(rec) BY DEF RestoredSoFar
<1>4. Receipt(p, rec, to) BY <1>1 DEF CommandOk, Receipt, Bare
<1> QED BY <1>1, <1>2, <1>3, <1>4 DEF CommandOk

-------------------------------------------------------------------------------
(* The answer is lost: what was made is not in the receipt.                    *)
LEMMA LostFields ==
    ASSUME ProvisioningInvariant, NEW p \in Procs,
           run' = [run EXCEPT ![p].pc = "rollback", ![p].fault = TRUE, ![p].leak = TRUE]
    PROVE  \E rec :
              /\ run' = [run EXCEPT ![p] = rec]
              /\ DOMAIN rec = DOMAIN Idle /\ rec.pc = "rollback" /\ rec.leak = TRUE
              /\ rec.command = run[p].command /\ rec.state = run[p].state
              /\ rec.created = run[p].created /\ rec.identity = run[p].identity
              /\ rec.committed = run[p].committed
<1>1. DOMAIN run[p] = DOMAIN Idle /\ run = [q \in Procs |-> run[q]]
  BY DEF ProvisioningInvariant, CommandOk, Shaped
<1> DEFINE rec == [run[p] EXCEPT !.pc = "rollback", !.fault = TRUE, !.leak = TRUE]
<1>2. run' = [run EXCEPT ![p] = rec] BY <1>1
<1>3. /\ DOMAIN rec = DOMAIN Idle /\ rec.pc = "rollback" /\ rec.leak = TRUE
      /\ rec.command = run[p].command /\ rec.state = run[p].state
      /\ rec.created = run[p].created /\ rec.identity = run[p].identity
      /\ rec.committed = run[p].committed
  BY <1>1 DEF Idle
<1> HIDE DEF rec
<1> QED BY <1>2, <1>3

LEMMA LostFits ==
    ASSUME NEW p \in Procs, NEW old, NEW rec, NEW f, NEW at, NEW to, CommandOk(p, old, f, at),
           Undoable(old),
           DOMAIN rec = DOMAIN Idle, rec.pc = "rollback", rec.leak = TRUE,
           rec.command = old.command, rec.state = old.state,
           rec.created = old.created, rec.identity = old.identity,
           rec.committed = old.committed
    PROVE  CommandOk(p, rec, f, to)
<1>1. Shaped(rec) /\ rec.command.op # "setup"
  BY DEF CommandOk, Shaped, StepsOf, Ends, IdentitySteps, Undoable
<1>2. IdentitySoFar(rec, f, to) BY DEF IdentitySoFar
<1>3. StateSoFar(rec, f)
  <2>1. old.pc \notin {"move", "install", "ok", "failed", "dead"} BY DEF Undoable
  <2> QED BY <2>1 DEF CommandOk, StateSoFar
<1>4. RestoredSoFar(rec) BY DEF RestoredSoFar
<1>5. Receipt(p, rec, to) BY <1>1 DEF CommandOk, Receipt, Bare
<1> QED BY <1>1, <1>2, <1>3, <1>4, <1>5 DEF CommandOk

LEMMA UserIs == \A m \in Makers : /\ User(m).user = m /\ User(m).maker = m /\ User(m).kind = "user"
BY DEF User

(* The user is found, or is to be made.                                        *)
LEMMA UserListKeeps ==
    ASSUME ProvisioningInvariant, NEW p \in Procs,
           List(p, "user", "user", {x \in remote : x.kind = "user"}, "key", "userCreate")
    PROVE  ProvisioningInvariant'
<1>1. /\ run[p].pc = "user" /\ remote' = remote /\ home' = home /\ aside' = aside
      /\ \/ \E x \in Users(remote) : Identify(p, "user", x, "key")
         \/ Goto(p, "userCreate")
         \/ Fault(p, "rollback")
  BY DEF List, At, disk, Users
<1>2. CommandOk(p, run[p], Fresh, remote) BY DEF ProvisioningInvariant
<1>3. ASSUME NEW x \in Users(remote), Identify(p, "user", x, "key") PROVE ProvisioningInvariant'
  <2>1. PICK rec :
              /\ run' = [run EXCEPT ![p] = rec]
              /\ DOMAIN rec = DOMAIN Idle /\ rec.pc = "key"
              /\ rec.command = run[p].command /\ rec.state = run[p].state
              /\ rec.created = run[p].created /\ rec.leak = run[p].leak
              /\ rec.committed = run[p].committed
              /\ rec.identity = [run[p].identity EXCEPT !["user"] = x]
    BY <1>3, IdentifyFields
  <2>2. DOMAIN run[p].identity = DOMAIN NoIdentity /\ "user" \in DOMAIN NoIdentity
        /\ run[p].leak \in BOOLEAN
    BY <1>2 DEF CommandOk, Shaped, NoIdentity
  <2>3. rec.identity.user = x /\ DOMAIN rec.identity = DOMAIN NoIdentity BY <2>1, <2>2
  <2>4. PICK m \in Makers \ Fresh : x = User(m) BY DEF ProvisioningInvariant, OneUser
  <2>5. Matches(rec.state.identity.key, rec.identity, remote)
    <3>1. User(rec.state.identity.key.user) \in remote => User(rec.state.identity.key.user) = x
      BY DEF ProvisioningInvariant, OneUser, Users, User
    <3>2. User(rec.state.identity.key.user) = User(m) => rec.state.identity.key.user = m BY DEF User
    <3> QED BY <2>3, <2>4, <3>1, <3>2, UserIs DEF Matches
  <2>6. IdentitySoFar(rec, Fresh, remote) BY <2>1, <2>3, <2>4, <2>5 DEF IdentitySoFar
  <2>7. CommandOk(p, rec, Fresh, remote)
    BY <1>1, <1>2, <2>1, <2>2, <2>3, <2>6, IdentityGoesOn
  <2> QED BY <1>1, <2>1, <2>7, CommandAlone DEF Early
<1>4. CASE Goto(p, "userCreate")
  <2>1. PICK rec : run' = [run EXCEPT ![p] = rec] /\ Alike(rec, run[p], "userCreate")
    BY <1>4, GoesTo
  <2>2. DOMAIN run[p].identity = DOMAIN NoIdentity /\ run[p].leak \in BOOLEAN
    BY <1>2 DEF CommandOk, Shaped
  <2>3. IdentitySoFar(rec, Fresh, remote) BY <2>1 DEF IdentitySoFar, Alike
  <2>4. CommandOk(p, rec, Fresh, remote)
    BY <1>1, <1>2, <2>1, <2>2, <2>3, IdentityGoesOn DEF Alike
  <2> QED BY <1>1, <2>1, <2>4, CommandAlone DEF Early
<1>5. CASE Fault(p, "rollback") BY <1>1, <1>5, FaultKeeps DEF Undoable
<1> QED BY <1>1, <1>3, <1>4, <1>5

(* It is made, which the provider does while it has none.                      *)
LEMMA UserMadeKeeps ==
    ASSUME ProvisioningInvariant, NEW p \in Procs,
           CreateNamed(p, "userCreate", "user", User(p), \E x \in remote : x.kind = "user", "key")
    PROVE  ProvisioningInvariant'
<1>1. /\ run[p].pc = "userCreate" /\ home' = home /\ aside' = aside
      /\ \/ /\ Users(remote) = {} /\ remote' = remote \cup {User(p)}
            /\ IdentityMade(p, "user", User(p), "key", TRUE)
         \/ /\ Users(remote) = {} /\ remote' = remote \cup {User(p)}
            /\ run' = [run EXCEPT ![p].pc = "rollback", ![p].fault = TRUE, ![p].leak = TRUE]
         \/ Fault(p, "rollback") /\ remote' = remote
  BY DEF CreateNamed, At, disk, Users
<1>2. CommandOk(p, run[p], Fresh, remote) BY DEF ProvisioningInvariant
<1>3. p \in Makers /\ p \in Fresh /\ User(p).maker = p /\ User(p).user = p /\ User(p).kind = "user"
  BY <1>1, UserIs DEF Makers, Fresh, Early
<1>4. ASSUME NEW rec, run' = [run EXCEPT ![p] = rec], rec.pc \notin Early
      PROVE  Fresh' \subseteq Fresh /\ p \notin Fresh'
  BY <1>4 DEF Fresh, ProvisioningInvariant
<1>5. ASSUME Users(remote) = {}, remote' = remote \cup {User(p)}, p \notin Fresh'
      PROVE  OneUser'
  <2>1. Users(remote') = {User(p)} BY <1>3, <1>5 DEF Users
  <2>2. (\A x \in Users(remote') : \E m \in Makers \ Fresh' : x = User(m))
        /\ (\A x, y \in Users(remote') : x = y)
    BY <1>3, <1>5, <2>1
  <2> QED BY <2>2 DEF OneUser
<1>6. ASSUME Fresh' \subseteq Fresh PROVE Disk'
  BY <1>1, <1>6, FewerFreshState DEF ProvisioningInvariant, Disk
<1>7. ASSUME Users(remote) = {}, remote' = remote \cup {User(p)},
             IdentityMade(p, "user", User(p), "key", TRUE)
      PROVE  ProvisioningInvariant'
  <2>0. PICK receipt \in BOOLEAN :
          receipt = TRUE /\ IdentityMade(p, "user", User(p), "key", receipt)
    BY <1>7
  <2>a. PICK rec : run' = [run EXCEPT ![p] = rec]
                    /\ Maker(rec, run[p], "user", User(p), "key", receipt)
    BY <2>0, IdentityMadeFields
  <2>1. /\ run' = [run EXCEPT ![p] = rec]
        /\ DOMAIN rec = DOMAIN Idle /\ rec.pc = "key"
        /\ rec.command = run[p].command /\ rec.state = run[p].state
        /\ rec.created = run[p].created \cup {User(p)}
        /\ rec.leak \in BOOLEAN /\ (~rec.leak => ~run[p].leak)
        /\ rec.committed = run[p].committed
        /\ rec.identity = [run[p].identity EXCEPT !["user"] = User(p)]
    BY <2>0, <2>a DEF Maker
  <2>2. DOMAIN run[p].identity = DOMAIN NoIdentity /\ "user" \in DOMAIN NoIdentity
    BY <1>2 DEF CommandOk, Shaped, NoIdentity
  <2>3. rec.identity.user = User(p) /\ DOMAIN rec.identity = DOMAIN NoIdentity BY <2>1, <2>2
  <2>4. Fresh' \subseteq Fresh /\ p \notin Fresh' BY <1>4, <2>1 DEF Early
  <2>5. rec.state.identity.key = None \/ Matches(rec.state.identity.key, rec.identity, remote')
    <3>1. User(rec.state.identity.key.user).kind = "user"
          /\ User(rec.state.identity.key.user).user = rec.state.identity.key.user
      BY DEF User
    <3>2. User(rec.state.identity.key.user) \in remote' => User(rec.state.identity.key.user) = User(p)
      BY <1>7, <3>1 DEF Users
    <3> QED BY <1>3, <2>3, <3>1, <3>2 DEF Matches
  <2>6. IdentitySoFar(rec, Fresh', remote')
    BY <1>3, <2>1, <2>3, <2>4, <2>5 DEF IdentitySoFar
  <2>7. CommandOk(p, rec, Fresh', remote')
    <3>1. \A x \in rec.created \ run[p].created : x.maker = p BY <1>3, <2>0, <2>1
    <3>2. \A x \in remote' \ remote : x \in rec.created \/ rec.leak BY <1>7, <2>0, <2>1
    <3>3. run[p].created \subseteq rec.created BY <2>0, <2>1
    <3>4. ~rec.leak => ~run[p].leak BY <2>1
    <3> QED BY <1>1, <1>2, <2>1, <2>3, <2>4, <2>6, <3>1, <3>2, <3>3, <3>4, IdentityGoesOn
  <2>8. \A x \in remote' \ remote : x.maker = p /\ (x.kind = "user" => p \in Fresh)
    BY <1>3, <1>7
  <2> QED BY <1>5, <1>6, <1>7, <2>1, <2>4, <2>7, <2>8, CommandMoves DEF Early
<1>8. ASSUME Users(remote) = {}, remote' = remote \cup {User(p)},
             run' = [run EXCEPT ![p].pc = "rollback", ![p].fault = TRUE, ![p].leak = TRUE]
      PROVE  ProvisioningInvariant'
  <2>1. PICK rec :
              /\ run' = [run EXCEPT ![p] = rec]
              /\ DOMAIN rec = DOMAIN Idle /\ rec.pc = "rollback" /\ rec.leak = TRUE
              /\ rec.command = run[p].command /\ rec.state = run[p].state
              /\ rec.created = run[p].created /\ rec.identity = run[p].identity
              /\ rec.committed = run[p].committed
    BY <1>8, LostFields
  <2>2. CommandOk(p, rec, Fresh, remote') BY <1>1, <1>2, <2>1, LostFits DEF Undoable
  <2>3. Fresh' \subseteq Fresh /\ p \notin Fresh' BY <1>4, <2>1 DEF Early
  <2>4. CommandOk(p, rec, Fresh', remote') BY <2>2, <2>3, FewerFresh
  <2>5. \A x \in remote' \ remote : x.maker = p /\ (x.kind = "user" => p \in Fresh)
    BY <1>3, <1>8
  <2> QED BY <1>5, <1>6, <1>8, <2>1, <2>3, <2>4, <2>5, CommandMoves DEF Early
<1>9. CASE Fault(p, "rollback") /\ remote' = remote
  BY <1>1, <1>9, FaultKeeps DEF Undoable
<1> QED BY <1>1, <1>7, <1>8, <1>9

-------------------------------------------------------------------------------
(* The key a command finds in its file is known.                               *)
LEMMA FileKeyKnown ==
    ASSUME NEW p \in Procs, NEW rec, NEW f, NEW at, CommandOk(p, rec, f, at), rec.pc = "key"
    PROVE  KeyKnown(rec.state.identity.key, f)
<1>1. Archive.identity.key = None BY DEF Archive, OldState, OldIdentity
<1> QED BY <1>1 DEF CommandOk, StateSoFar, StateSound, StateKnown, KeyKnown

(* No user is made: what matches goes on matching.                             *)
LEMMA MatchesOn ==
    ASSUME NEW key, NEW identity, NEW at, NEW to, Matches(key, identity, at),
           \A x \in to \ at : x.kind # "user"
    PROVE  Matches(key, identity, to)
<1>1. User(key.user).kind = "user" BY DEF User
<1> QED BY <1>1 DEF Matches

LEMMA KeyKeeps ==
    ASSUME ProvisioningInvariant, NEW p \in Procs, EnsureKey(p) PROVE ProvisioningInvariant'
<1>0. PICK new : new = Key(run[p].identity.user, p) OBVIOUS
<1>1. /\ run[p].pc = "key" /\ home' = home /\ aside' = aside
      /\ \/ /\ run[p].state.identity.key # None /\ remote' = remote
            /\ Identify(p, "key", run[p].state.identity.key, "team")
         \/ /\ remote' = remote \cup {new}
            /\ \E receipt \in BOOLEAN : IdentityMade(p, "key", new, "team", receipt)
         \/ Fault(p, "rollback") /\ remote' = remote
  BY <1>0 DEF EnsureKey, At, disk
<1>2. CommandOk(p, run[p], Fresh, remote) BY DEF ProvisioningInvariant
<1>3. DOMAIN run[p].identity = {"user", "key", "team"} /\ DOMAIN NoIdentity = {"user", "key", "team"}
      /\ run[p].leak \in BOOLEAN
  BY <1>2 DEF CommandOk, Shaped, NoIdentity
<1>4. PICK m \in Makers \ Fresh : run[p].identity.user = User(m)
  BY <1>1, <1>2 DEF CommandOk, IdentitySoFar
<1>5. new.kind = "key" /\ new.maker = p /\ new.user = m
  BY <1>0, <1>4, UserIs DEF Key
<1>6. ASSUME run[p].state.identity.key # None, remote' = remote,
             Identify(p, "key", run[p].state.identity.key, "team")
      PROVE  ProvisioningInvariant'
  <2>0. PICK key : key = run[p].state.identity.key OBVIOUS
  <2>1. PICK rec :
              /\ run' = [run EXCEPT ![p] = rec]
              /\ DOMAIN rec = DOMAIN Idle /\ rec.pc = "team"
              /\ rec.command = run[p].command /\ rec.state = run[p].state
              /\ rec.created = run[p].created /\ rec.leak = run[p].leak
              /\ rec.committed = run[p].committed
              /\ rec.identity = [run[p].identity EXCEPT !["key"] = key]
    BY <1>6, <2>0, IdentifyFields
  <2>2. rec.identity.key = key /\ rec.identity.user = User(m) /\ DOMAIN rec.identity = DOMAIN NoIdentity
    BY <1>3, <1>4, <2>1
  <2>3. key.user \in Makers \ Fresh
    BY <1>1, <1>2, <1>6, <2>0, FileKeyKnown DEF KeyKnown
  <2>4. Matches(key, rec.identity, remote)
    BY <1>1, <1>2, <1>4, <1>6, <2>0, <2>2 DEF CommandOk, IdentitySoFar, Matches
  <2>5. IdentitySoFar(rec, Fresh, remote) BY <2>1, <2>2, <2>3, <2>4 DEF IdentitySoFar
  <2>6. CommandOk(p, rec, Fresh, remote)
    BY <1>1, <1>2, <1>3, <2>1, <2>2, <2>5, IdentityGoesOn
  <2> QED BY <1>1, <1>6, <2>1, <2>6, CommandAlone DEF Early
<1>7. ASSUME remote' = remote \cup {new}, NEW receipt \in BOOLEAN,
             IdentityMade(p, "key", new, "team", receipt)
      PROVE  ProvisioningInvariant'
  <2>1. PICK rec : run' = [run EXCEPT ![p] = rec] /\ Maker(rec, run[p], "key", new, "team", receipt)
    BY <1>7, IdentityMadeFields
  <2>2. /\ DOMAIN rec = DOMAIN Idle /\ rec.pc = "team"
        /\ rec.command = run[p].command /\ rec.state = run[p].state
        /\ run[p].created \subseteq rec.created /\ rec.created \subseteq run[p].created \cup {new}
        /\ new \in rec.created \/ rec.leak
        /\ rec.leak \in BOOLEAN /\ (~rec.leak => ~run[p].leak)
        /\ rec.committed = run[p].committed
        /\ rec.identity = [run[p].identity EXCEPT !["key"] = new]
    BY <2>1 DEF Maker
  <2>3. rec.identity.key = new /\ rec.identity.user = User(m) /\ DOMAIN rec.identity = DOMAIN NoIdentity
    BY <1>3, <1>4, <2>2
  <2>4. Matches(new, rec.identity, remote') BY <1>5, <2>3, UserIs DEF Matches
  <2>5. IdentitySoFar(rec, Fresh, remote') BY <1>5, <2>2, <2>3, <2>4 DEF IdentitySoFar
  <2>6. \A x \in rec.created \ run[p].created : x.maker = p BY <1>5, <2>2
  <2>7. \A x \in remote' \ remote : x \in rec.created \/ rec.leak BY <1>7, <2>2
  <2>8. CommandOk(p, rec, Fresh, remote')
    BY <1>1, <1>2, <2>2, <2>3, <2>5, <2>6, <2>7, IdentityGoesOn
  <2>9. \A x \in remote' \ remote : x.maker = p /\ x.kind # "user" BY <1>5, <1>7
  <2> QED BY <1>1, <2>1, <2>2, <2>8, <2>9, CommandGoesOn DEF Early, ProvisioningInvariant, Disk
<1>8. CASE Fault(p, "rollback") /\ remote' = remote BY <1>1, <1>8, FaultKeeps DEF Undoable
<1> QED BY <1>1, <1>6, <1>7, <1>8

(* The team is found, or is to be made.                                        *)
LEMMA TeamListKeeps ==
    ASSUME ProvisioningInvariant, NEW p \in Procs,
           List(p, "team", "team", Of("team", run[p].identity.user), "verify", "teamCreate")
    PROVE  ProvisioningInvariant'
<1>1. /\ run[p].pc = "team" /\ remote' = remote /\ home' = home /\ aside' = aside
      /\ \/ \E x \in Of("team", run[p].identity.user) : Identify(p, "team", x, "verify")
         \/ Goto(p, "teamCreate")
         \/ Fault(p, "rollback")
  BY DEF List, At, disk
<1>2. CommandOk(p, run[p], Fresh, remote) BY DEF ProvisioningInvariant
<1>3. DOMAIN run[p].identity = {"user", "key", "team"} /\ DOMAIN NoIdentity = {"user", "key", "team"}
      /\ run[p].leak \in BOOLEAN
  BY <1>2 DEF CommandOk, Shaped, NoIdentity
<1>4. ASSUME NEW x \in Of("team", run[p].identity.user), Identify(p, "team", x, "verify")
      PROVE  ProvisioningInvariant'
  <2>1. PICK rec :
              /\ run' = [run EXCEPT ![p] = rec]
              /\ DOMAIN rec = DOMAIN Idle /\ rec.pc = "verify"
              /\ rec.command = run[p].command /\ rec.state = run[p].state
              /\ rec.created = run[p].created /\ rec.leak = run[p].leak
              /\ rec.committed = run[p].committed
              /\ rec.identity = [run[p].identity EXCEPT !["team"] = x]
    BY <1>4, IdentifyFields
  <2>2. /\ rec.identity.key = run[p].identity.key /\ rec.identity.user = run[p].identity.user
        /\ rec.identity.team = x /\ DOMAIN rec.identity = DOMAIN NoIdentity
    BY <1>3, <2>1
  <2>3. x.user = rec.identity.user.user BY <1>4, <2>2 DEF Of
  <2>4. IdentitySoFar(rec, Fresh, remote)
    BY <1>1, <1>2, <2>1, <2>2, <2>3 DEF CommandOk, IdentitySoFar, Matches
  <2>5. CommandOk(p, rec, Fresh, remote)
    BY <1>1, <1>2, <1>3, <2>1, <2>2, <2>4, IdentityGoesOn
  <2> QED BY <1>1, <2>1, <2>5, CommandAlone DEF Early
<1>5. CASE Goto(p, "teamCreate")
  <2>1. PICK rec : run' = [run EXCEPT ![p] = rec] /\ Alike(rec, run[p], "teamCreate")
    BY <1>5, GoesTo
  <2>2. IdentitySoFar(rec, Fresh, remote)
    BY <1>1, <1>2, <2>1 DEF CommandOk, IdentitySoFar, Alike
  <2>3. CommandOk(p, rec, Fresh, remote)
    BY <1>1, <1>2, <1>3, <2>1, <2>2, IdentityGoesOn DEF Alike
  <2> QED BY <1>1, <2>1, <2>3, CommandAlone DEF Early, Alike
<1>6. CASE Fault(p, "rollback") BY <1>1, <1>6, FaultKeeps DEF Undoable
<1> QED BY <1>1, <1>4, <1>5, <1>6

LEMMA TeamMadeKeeps ==
    ASSUME ProvisioningInvariant, NEW p \in Procs, NEW taken,
           CreateNamed(p, "teamCreate", "team", Team(run[p].identity.user, p), taken, "verify")
    PROVE  ProvisioningInvariant'
<1>0. PICK new : new = Team(run[p].identity.user, p) OBVIOUS
<1>1. /\ run[p].pc = "teamCreate" /\ home' = home /\ aside' = aside
      /\ \/ /\ remote' = remote \cup {new}
            /\ IdentityMade(p, "team", new, "verify", TRUE)
         \/ /\ remote' = remote \cup {new}
            /\ run' = [run EXCEPT ![p].pc = "rollback", ![p].fault = TRUE, ![p].leak = TRUE]
         \/ Fault(p, "rollback") /\ remote' = remote
  BY <1>0 DEF CreateNamed, At, disk
<1>2. CommandOk(p, run[p], Fresh, remote) BY DEF ProvisioningInvariant
<1>3. DOMAIN run[p].identity = {"user", "key", "team"} /\ DOMAIN NoIdentity = {"user", "key", "team"}
  BY <1>2 DEF CommandOk, Shaped, NoIdentity
<1>4. PICK m \in Makers \ Fresh : run[p].identity.user = User(m)
  BY <1>1, <1>2 DEF CommandOk, IdentitySoFar
<1>5. new.kind = "team" /\ new.maker = p /\ new.user = m
  BY <1>0, <1>4, UserIs DEF Team
<1>6. remote' = remote \cup {new} => \A x \in remote' \ remote : x.maker = p /\ x.kind # "user"
  BY <1>5
<1>7. ASSUME remote' = remote \cup {new}, IdentityMade(p, "team", new, "verify", TRUE)
      PROVE  ProvisioningInvariant'
  <2>0. PICK receipt \in BOOLEAN : receipt = TRUE /\ IdentityMade(p, "team", new, "verify", receipt)
    BY <1>7
  <2>1. PICK rec : run' = [run EXCEPT ![p] = rec] /\ Maker(rec, run[p], "team", new, "verify", receipt)
    BY <2>0, IdentityMadeFields
  <2>2. /\ DOMAIN rec = DOMAIN Idle /\ rec.pc = "verify"
        /\ rec.command = run[p].command /\ rec.state = run[p].state
        /\ rec.created = run[p].created \cup {new}
        /\ rec.leak \in BOOLEAN /\ (~rec.leak => ~run[p].leak)
        /\ rec.committed = run[p].committed
        /\ rec.identity = [run[p].identity EXCEPT !["team"] = new]
    BY <2>0, <2>1 DEF Maker
  <2>3. /\ rec.identity.key = run[p].identity.key /\ rec.identity.user = User(m)
        /\ rec.identity.team = new /\ DOMAIN rec.identity = DOMAIN NoIdentity
    BY <1>3, <1>4, <2>2
  <2>4. run[p].identity.key.user \in Makers \ Fresh /\ Matches(run[p].identity.key, run[p].identity, remote)
    BY <1>1, <1>2 DEF CommandOk, IdentitySoFar
  <2>5. Matches(rec.identity.key, rec.identity, remote')
    <3>1. Matches(rec.identity.key, rec.identity, remote) BY <1>4, <2>3, <2>4 DEF Matches
    <3> QED BY <3>1, <1>6, <1>7, MatchesOn
  <2>6. IdentitySoFar(rec, Fresh, remote')
    BY <1>5, <2>2, <2>3, <2>4, <2>5, UserIs DEF IdentitySoFar
  <2>7. \A x \in rec.created \ run[p].created : x.maker = p BY <1>5, <2>2
  <2>8. \A x \in remote' \ remote : x \in rec.created \/ rec.leak BY <1>7, <2>2
  <2>9. run[p].created \subseteq rec.created BY <2>2
  <2>10. CommandOk(p, rec, Fresh, remote')
    BY <1>1, <1>2, <2>2, <2>3, <2>6, <2>7, <2>8, <2>9, IdentityGoesOn
  <2> QED BY <1>1, <1>6, <1>7, <2>1, <2>2, <2>10, CommandGoesOn DEF Early, ProvisioningInvariant, Disk
<1>8. ASSUME remote' = remote \cup {new},
             run' = [run EXCEPT ![p].pc = "rollback", ![p].fault = TRUE, ![p].leak = TRUE]
      PROVE  ProvisioningInvariant'
  <2>1. PICK rec :
              /\ run' = [run EXCEPT ![p] = rec]
              /\ DOMAIN rec = DOMAIN Idle /\ rec.pc = "rollback" /\ rec.leak = TRUE
              /\ rec.command = run[p].command /\ rec.state = run[p].state
              /\ rec.created = run[p].created /\ rec.identity = run[p].identity
              /\ rec.committed = run[p].committed
    BY <1>8, LostFields
  <2>2. CommandOk(p, rec, Fresh, remote') BY <1>1, <1>2, <2>1, LostFits DEF Undoable
  <2> QED BY <1>1, <1>6, <1>8, <2>1, <2>2, CommandGoesOn DEF Early, ProvisioningInvariant, Disk
<1>9. CASE Fault(p, "rollback") /\ remote' = remote BY <1>1, <1>9, FaultKeeps DEF Undoable
<1> QED BY <1>1, <1>7, <1>8, <1>9

(* Only an identity of one piece passes: its user is there, and it is the one  *)
(* the key belongs to.                                                         *)
LEMMA VerifyKeeps ==
    ASSUME ProvisioningInvariant, NEW p \in Procs, VerifyAuth(p) PROVE ProvisioningInvariant'
<1>1. /\ run[p].pc = "verify" /\ home' = home /\ aside' = aside /\ remote' = remote
      /\ \/ Live(run[p].identity) /\ Goto(p, IF Restoring(p) THEN "bindings" ELSE "save")
         \/ Fault(p, "rollback")
  BY DEF VerifyAuth, At, disk
<1>2. CommandOk(p, run[p], Fresh, remote) BY DEF ProvisioningInvariant
<1>3. ASSUME Live(run[p].identity), Goto(p, IF Restoring(p) THEN "bindings" ELSE "save")
      PROVE  ProvisioningInvariant'
  <2>0. PICK pc : pc = IF Restoring(p) THEN "bindings" ELSE "save" OBVIOUS
  <2>1. PICK rec : run' = [run EXCEPT ![p] = rec] /\ Alike(rec, run[p], pc) BY <1>3, <2>0, GoesTo
  <2>2. Sound(run[p].identity) /\ run[p].identity.key.user \in Makers \ Fresh
    BY <1>1, <1>2, <1>3 DEF CommandOk, IdentitySoFar, Matches, Live, Sound
  <2>3. (pc = "bindings" /\ RestoreOf(run[p].command.op)) \/ (pc = "save" /\ run[p].command.op = "init")
    <3>1. run[p].command.op \in {"init", "restore", "replace"}
      BY <1>1, <1>2 DEF CommandOk, Shaped, StepsOf, Ends
    <3> QED BY <3>1, <2>0 DEF Restoring, RestoreOf, Op
  <2>4. Shaped(rec)
    BY <1>2, <2>1, <2>3 DEF CommandOk, Shaped, Alike, StepsOf, RestoreOf
  <2>5. IdentitySoFar(rec, Fresh, remote) BY <2>1, <2>2, <2>3 DEF Alike, IdentitySoFar
  <2>6. StateSoFar(rec, Fresh) BY <1>1, <1>2, <2>1, <2>3 DEF CommandOk, Alike, StateSoFar
  <2>7. RestoredSoFar(rec) BY <2>1, <2>3 DEF Alike, RestoredSoFar
  <2>8. Receipt(p, rec, remote)
    BY <1>1, <1>2, <2>1, <2>3 DEF CommandOk, Alike, Receipt, Bare, RestoreOf
  <2>9. CommandOk(p, rec, Fresh, remote) BY <2>4, <2>5, <2>6, <2>7, <2>8 DEF CommandOk
  <2> QED BY <1>1, <2>1, <2>3, <2>9, CommandAlone DEF Early, Alike
<1>4. CASE Fault(p, "rollback") BY <1>1, <1>4, FaultKeeps DEF Undoable
<1> QED BY <1>1, <1>3, <1>4

-------------------------------------------------------------------------------
LEMMA RollbackKeeps ==
    ASSUME ProvisioningInvariant, NEW p \in Procs, Rollback(p) PROVE ProvisioningInvariant'
<1>1. CommandOk(p, run[p], Fresh, remote) /\ run = [q \in Procs |-> run[q]]
  BY DEF ProvisioningInvariant
<1>2. DOMAIN run[p] = DOMAIN Idle BY <1>1 DEF CommandOk, Shaped
<1>3. PICK gone \in SUBSET run[p].created :
          /\ remote' = remote \ gone
          /\ run' = [run EXCEPT ![p].pc = "failed", ![p].created = {},
                        ![p].leak = @ \/ gone # run[p].created]
  BY DEF Rollback
<1>4. run[p].pc = "rollback" /\ home' = home /\ aside' = aside BY DEF Rollback, At, disk
<1> DEFINE rec == [run[p] EXCEPT !.pc = "failed", !.created = {}, !.leak = @ \/ gone # run[p].created]
<1>5. run' = [run EXCEPT ![p] = rec] BY <1>1, <1>3
<1>6. /\ DOMAIN rec = DOMAIN Idle /\ rec.pc = "failed" /\ rec.command = run[p].command
      /\ rec.state = run[p].state /\ rec.identity = run[p].identity /\ rec.created = {}
      /\ rec.leak = (run[p].leak \/ gone # run[p].created) /\ rec.committed = run[p].committed
  BY <1>2 DEF Idle
<1> HIDE DEF rec
<1>7. rec.leak \in BOOLEAN BY <1>6
<1>8. ~rec.leak => ~run[p].leak /\ gone = run[p].created BY <1>6, <1>1 DEF CommandOk, Shaped
<1>9. Shaped(rec) BY <1>1, <1>4, <1>6, <1>7 DEF CommandOk, Shaped, StepsOf, Ends, IdentitySteps
<1>10. IdentitySoFar(rec, Fresh, remote') BY <1>6 DEF IdentitySoFar
<1>11. StateSoFar(rec, Fresh) BY <1>1, <1>4, <1>6 DEF CommandOk, StateSoFar
<1>12. RestoredSoFar(rec) BY <1>6 DEF RestoredSoFar
<1>13. Receipt(p, rec, remote')
  BY <1>1, <1>3, <1>6, <1>8 DEF CommandOk, Receipt
<1>14. CommandOk(p, rec, Fresh, remote') BY <1>9, <1>10, <1>11, <1>12, <1>13 DEF CommandOk
<1> QED BY <1>3, <1>4, <1>5, <1>6, <1>14, CommandGoesOn DEF Early, ProvisioningInvariant, Disk

(* Whether a write that failed took effect or not, the file is sound.          *)
LEMMA UnsureSound ==
    ASSUME ProvisioningInvariant, NEW state, StateSound(state, Fresh), home' \in Unsure(state)
    PROVE  DOMAIN home' = {"there", "state"} /\ StateSound(home'.state, Fresh)
BY DEF Unsure, Written, ProvisioningInvariant, Disk

(* global.json gets an identity of one piece.                                  *)
LEMMA SaveIdentityKeeps ==
    ASSUME ProvisioningInvariant, NEW p \in Procs, SaveIdentity(p) PROVE ProvisioningInvariant'
<1>1. CommandOk(p, run[p], Fresh, remote) /\ run = [q \in Procs |-> run[q]]
  BY DEF ProvisioningInvariant
<1>2. DOMAIN run[p] = DOMAIN Idle BY <1>1 DEF CommandOk, Shaped
<1>3. run[p].pc = "save" /\ run[p].command.op = "init" /\ remote' = remote /\ aside' = aside
  BY DEF SaveIdentity, At, Op
<1>4. StateSound(run[p].state, Fresh) BY <1>1, <1>3 DEF CommandOk, StateSoFar, RestoreOf
<1> DEFINE written == [run[p].state EXCEPT !.identity = run[p].identity, !.path = TRUE]
<1>8. StateSound(written, Fresh)
  <2>1. DOMAIN run[p].state = DOMAIN EmptyState BY <1>4 DEF StateSound, StateKnown
  <2>2. DOMAIN written = DOMAIN EmptyState /\ written.identity = run[p].identity
    BY <2>1 DEF EmptyState
  <2> HIDE DEF written
  <2> QED BY <1>1, <1>3, <2>2 DEF CommandOk, IdentitySoFar, StateSound, StateKnown, KeyKnown
<1>5. ASSUME home' = Written(written),
             run' = [run EXCEPT ![p].pc = "ok", ![p].created = {}, ![p].committed = TRUE]
      PROVE  ProvisioningInvariant'
  <2> DEFINE rec == [run[p] EXCEPT !.pc = "ok", !.created = {}, !.committed = TRUE]
  <2>1. run' = [run EXCEPT ![p] = rec] BY <1>1, <1>5
  <2>2. /\ DOMAIN rec = DOMAIN Idle /\ rec.pc = "ok" /\ rec.command = run[p].command
        /\ rec.state = run[p].state /\ rec.identity = run[p].identity /\ rec.created = {}
        /\ rec.leak = run[p].leak /\ rec.committed = TRUE
    BY <1>2 DEF Idle
  <2>5. home'.state = written /\ DOMAIN home' = {"there", "state"} BY <1>5 DEF Written
  <2> HIDE DEF rec, written
  <2>7. Shaped(rec) BY <1>1, <1>3, <2>2 DEF CommandOk, Shaped, StepsOf, Ends
  <2>8. IdentitySoFar(rec, Fresh, remote) BY <2>2 DEF IdentitySoFar
  <2>9. StateSoFar(rec, Fresh) BY <1>3, <1>4, <2>2 DEF StateSoFar, RestoreOf
  <2>10. RestoredSoFar(rec) BY <1>3, <2>2 DEF RestoredSoFar, RestoreOf
  <2>11. Receipt(p, rec, remote) BY <2>2 DEF Receipt
  <2>12. CommandOk(p, rec, Fresh, remote) BY <2>7, <2>8, <2>9, <2>10, <2>11 DEF CommandOk
  <2> QED BY <1>3, <1>8, <2>1, <2>2, <2>5, <2>12, CommandGoesOn DEF Early, ProvisioningInvariant, Disk
<1>6. ASSUME Fault(p, "rollback"), home' \in Unsure(written) PROVE ProvisioningInvariant'
  <2>1. PICK rec : run' = [run EXCEPT ![p] = rec] /\ Alike(rec, run[p], "rollback") BY <1>6, GoesTo
  <2>2. Undoable(run[p]) BY <1>3 DEF Undoable
  <2>3. CommandOk(p, rec, Fresh, remote) BY <1>1, <2>1, <2>2, FailsUndone
  <2>4. rec.pc \notin Early BY <2>1 DEF Alike, Early
  <2> HIDE DEF written
  <2>5. DOMAIN home' = {"there", "state"} /\ StateSound(home'.state, Fresh)
    BY <1>6, <1>8, UnsureSound
  <2> QED BY <1>3, <2>1, <2>3, <2>4, <2>5, CommandGoesOn DEF ProvisioningInvariant, Disk
<1> QED BY <1>5, <1>6 DEF SaveIdentity

-------------------------------------------------------------------------------
(* Setup: its steps make agents only, and keep the identity it has read.       *)
LEMMA SetupGoesOn ==
    ASSUME ProvisioningInvariant, NEW p \in Procs, NEW rec,
           run[p].pc \in {"agent", "agentCreate", "env", "save"}, run[p].command.op = "setup",
           DOMAIN rec = DOMAIN Idle, rec.command = run[p].command, rec.state = run[p].state,
           rec.identity = run[p].identity, rec.created = run[p].created, rec.leak = run[p].leak,
           rec.committed = run[p].committed,
           rec.pc \in {"agentCreate", "env", "save", "ok", "failed"},
           \A x \in remote' \ remote : x.maker = p /\ x.kind = "agent"
    PROVE  CommandOk(p, rec, Fresh, remote')
<1>1. CommandOk(p, run[p], Fresh, remote) BY DEF ProvisioningInvariant
<1>2. Shaped(rec) BY <1>1 DEF CommandOk, Shaped, StepsOf, Ends
<1>3. IdentitySoFar(rec, Fresh, remote') BY DEF IdentitySoFar
<1>4. StateSoFar(rec, Fresh) BY <1>1 DEF CommandOk, StateSoFar, RestoreOf
<1>5. RestoredSoFar(rec) BY DEF RestoredSoFar, RestoreOf
<1>6. Receipt(p, rec, remote') BY <1>1 DEF CommandOk, Receipt
<1> QED BY <1>2, <1>3, <1>4, <1>5, <1>6 DEF CommandOk

LEMMA SetupStep ==
    ASSUME ProvisioningInvariant, NEW p \in Procs,
           run[p].pc \in {"agent", "agentCreate", "env", "save"}, run[p].command.op = "setup",
           NEW pc \in {"agentCreate", "env", "save", "ok", "failed"}, Goto(p, pc) \/ Fault(p, pc),
           \A x \in remote' \ remote : x.maker = p /\ x.kind = "agent",
           DOMAIN home' = {"there", "state"}, StateSound(home'.state, Fresh),
           aside' = aside
    PROVE  ProvisioningInvariant'
<1>1. PICK rec : run' = [run EXCEPT ![p] = rec] /\ Alike(rec, run[p], pc) BY GoesTo
<1>2. CommandOk(p, rec, Fresh, remote') BY <1>1, SetupGoesOn DEF Alike
<1>3. rec.pc \notin Early BY <1>1 DEF Alike, Early
<1>4. \A x \in remote' \ remote : x.maker = p /\ x.kind # "user" OBVIOUS
<1> QED BY <1>1, <1>2, <1>3, <1>4, CommandGoesOn DEF ProvisioningInvariant, Disk

Binds(p, binding) == run' = [run EXCEPT ![p].pc = "env", ![p].binding = binding]

LEMMA BindKeeps ==
    ASSUME ProvisioningInvariant, NEW p \in Procs, NEW binding,
           run[p].pc \in {"agent", "agentCreate"}, run[p].command.op = "setup",
           Binds(p, binding),
           \A x \in remote' \ remote : x.maker = p /\ x.kind = "agent",
           home' = home, aside' = aside
    PROVE  ProvisioningInvariant'
<1>1. CommandOk(p, run[p], Fresh, remote) /\ run = [q \in Procs |-> run[q]]
  BY DEF ProvisioningInvariant
<1>2. DOMAIN run[p] = DOMAIN Idle BY <1>1 DEF CommandOk, Shaped
<1> DEFINE rec == [run[p] EXCEPT !.pc = "env", !.binding = binding]
<1>3. run' = [run EXCEPT ![p] = rec] BY <1>1 DEF Binds
<1>4. /\ DOMAIN rec = DOMAIN Idle /\ rec.pc = "env" /\ rec.command = run[p].command
      /\ rec.state = run[p].state /\ rec.identity = run[p].identity
      /\ rec.created = run[p].created
      /\ rec.leak = run[p].leak /\ rec.committed = run[p].committed
  BY <1>2 DEF Idle
<1> HIDE DEF rec
<1>5. CommandOk(p, rec, Fresh, remote') BY <1>4, SetupGoesOn
<1>6. \A x \in remote' \ remote : x.maker = p /\ x.kind # "user" OBVIOUS
<1> QED BY <1>3, <1>4, <1>5, <1>6, CommandGoesOn DEF Early, ProvisioningInvariant, Disk

LEMMA AgentKeeps ==
    ASSUME ProvisioningInvariant, NEW p \in Procs, EnsureAgent(p) PROVE ProvisioningInvariant'
<1>0. PICK new : new = Agent(run[p].state.identity.team, p, Project(p)) OBVIOUS
<1>1. new.kind = "agent" /\ new.maker = p BY <1>0 DEF Agent
<1>2. run[p].pc \in {"agent", "agentCreate"} /\ home' = home /\ aside' = aside
      /\ (remote' = remote \/ remote' = remote \cup {new})
  BY <1>0 DEF EnsureAgent, At, disk
<1>3. run[p].command.op = "setup"
  BY <1>2 DEF ProvisioningInvariant, CommandOk, Shaped, StepsOf, Ends, IdentitySteps
<1>4. \A x \in remote' \ remote : x.maker = p /\ x.kind = "agent" BY <1>1, <1>2
<1>5. StateSound(home'.state, Fresh) /\ DOMAIN home' = {"there", "state"}
  BY <1>2 DEF ProvisioningInvariant, Disk
<1>6. \/ \E binding : Binds(p, binding)
      \/ Goto(p, "agentCreate") \/ Fault(p, "failed")
  BY DEF EnsureAgent, Bind, Binds
<1>7. ASSUME NEW binding, Binds(p, binding)
      PROVE  ProvisioningInvariant'
  BY <1>2, <1>3, <1>4, <1>7, BindKeeps
<1>8. CASE Goto(p, "agentCreate")
  <2>1. PICK pc \in {"agentCreate", "env", "save", "ok", "failed"} : pc = "agentCreate" OBVIOUS
  <2> QED BY <1>2, <1>3, <1>4, <1>5, <1>8, <2>1, SetupStep
<1>9. CASE Fault(p, "failed")
  <2>1. PICK pc \in {"agentCreate", "env", "save", "ok", "failed"} : pc = "failed" OBVIOUS
  <2> QED BY <1>2, <1>3, <1>4, <1>5, <1>9, <2>1, SetupStep
<1> QED BY <1>6, <1>7, <1>8, <1>9

LEMMA EnvKeeps ==
    ASSUME ProvisioningInvariant, NEW p \in Procs, WriteEnv(p) PROVE ProvisioningInvariant'
<1>1. /\ run[p].pc = "env" /\ home' = home /\ aside' = aside /\ remote' = remote
      /\ Goto(p, "save") \/ Fault(p, "failed")
  BY DEF WriteEnv, At
<1>2. run[p].command.op = "setup"
  BY <1>1 DEF ProvisioningInvariant, CommandOk, Shaped, StepsOf, Ends, IdentitySteps
<1>3. PICK pc \in {"agentCreate", "env", "save", "ok", "failed"} : Goto(p, pc) \/ Fault(p, pc)
  BY <1>1
<1>4. StateSound(home'.state, Fresh) /\ DOMAIN home' = {"there", "state"}
  BY <1>1 DEF ProvisioningInvariant, Disk
<1>5. \A x \in remote' \ remote : x.maker = p /\ x.kind = "agent" BY <1>1
<1> QED BY <1>1, <1>2, <1>3, <1>4, <1>5, SetupStep

LEMMA SaveBindingKeeps ==
    ASSUME ProvisioningInvariant, NEW p \in Procs, SaveBinding(p) PROVE ProvisioningInvariant'
<1>1. /\ run[p].pc = "save" /\ run[p].command.op = "setup" /\ remote' = remote /\ aside' = aside
  BY DEF SaveBinding, At, Op
<1>2. StateSound(run[p].state, Fresh)
  BY <1>1 DEF ProvisioningInvariant, CommandOk, StateSoFar, RestoreOf
<1>3. \A x \in remote' \ remote : x.maker = p /\ x.kind = "agent" BY <1>1
<1> DEFINE state == [run[p].state EXCEPT !.bindings[Project(p)] = env[Project(p)]]
<1>4. StateSound(state, Fresh)
  <2>1. DOMAIN run[p].state = DOMAIN EmptyState BY <1>2 DEF StateSound, StateKnown
  <2>2. DOMAIN state = DOMAIN EmptyState /\ state.identity = run[p].state.identity
    BY <2>1 DEF EmptyState
  <2> HIDE DEF state
  <2> QED BY <1>2, <2>2 DEF StateSound, StateKnown
<1>5. PICK pc \in {"agentCreate", "env", "save", "ok", "failed"} :
          (Goto(p, pc) \/ Fault(p, pc)) /\ home' \in Unsure(state)
  <2>1. \/ Goto(p, "ok") /\ home' = Written(state)
        \/ Fault(p, "failed") /\ home' \in Unsure(state)
    BY DEF SaveBinding
  <2> HIDE DEF state
  <2>2. Written(state) \in Unsure(state) BY DEF Unsure
  <2> QED BY <2>1, <2>2
<1> HIDE DEF state
<1>6. DOMAIN home' = {"there", "state"} /\ StateSound(home'.state, Fresh)
  BY <1>4, <1>5, UnsureSound
<1> QED BY <1>1, <1>3, <1>5, <1>6, SetupStep

-------------------------------------------------------------------------------
(* Restore: the account and the bindings are those of the archive.             *)
LEMMA BindingsKeep ==
    ASSUME ProvisioningInvariant, NEW p \in Procs, CheckBindings(p) PROVE ProvisioningInvariant'
<1>1. CommandOk(p, run[p], Fresh, remote) /\ run = [q \in Procs |-> run[q]]
  BY DEF ProvisioningInvariant
<1>2. DOMAIN run[p] = DOMAIN Idle BY <1>1 DEF CommandOk, Shaped
<1>3. run[p].pc = "bindings" /\ remote' = remote /\ home' = home /\ aside' = aside
  BY DEF CheckBindings, At, disk
<1>4. run[p].command.op \in {"restore", "replace"}
  BY <1>1, <1>3 DEF CommandOk, Shaped, StepsOf, Ends, IdentitySteps
<1>5. run[p].state = Archive BY <1>1, <1>3, <1>4 DEF CommandOk, StateSoFar, RestoreOf
<1>6. Sound(run[p].identity) /\ run[p].identity.key.user \in Makers \ Fresh
  BY <1>1, <1>3 DEF CommandOk, IdentitySoFar
<1>7. ASSUME Fits(p),
             run' = [run EXCEPT ![p].pc = "move", ![p].created = {}, ![p].committed = TRUE,
                        ![p].state.identity = run[p].identity, ![p].state.path = TRUE]
      PROVE  ProvisioningInvariant'
  <2> DEFINE state == [run[p].state EXCEPT !.identity = run[p].identity, !.path = TRUE]
             rec == [run[p] EXCEPT !.pc = "move", !.created = {}, !.committed = TRUE, !.state = state]
  <2>1. run' = [run EXCEPT ![p] = rec] BY <1>1, <1>2, <1>7, ZenonT(40) DEF Idle
  <2>2. /\ DOMAIN rec = DOMAIN Idle /\ rec.pc = "move" /\ rec.command = run[p].command
        /\ rec.state = state /\ rec.identity = run[p].identity /\ rec.created = {}
        /\ rec.leak = run[p].leak /\ rec.committed = TRUE
    BY <1>2 DEF Idle
  <2>3. DOMAIN Archive = DOMAIN EmptyState BY DEF Archive, OldState, EmptyState
  <2>4. /\ DOMAIN state = DOMAIN EmptyState /\ state.identity = run[p].identity
        /\ state.bindings = Archive.bindings
    BY <1>5, <2>3 DEF EmptyState
  <2> HIDE DEF rec, state
  <2>5. StateSound(state, Fresh) BY <1>6, <2>4 DEF StateSound, StateKnown, KeyKnown
  <2>6. /\ run[p].identity.user = Archive.identity.user
        /\ run[p].identity.team = Archive.identity.team
    <3>1. Archive.identity.user = OldUser /\ Archive.identity.team = OldTeam
      BY DEF Archive, OldState, OldIdentity
    <3> QED BY <1>5, <1>7, <3>1, NoneIsNothing DEF Fits, Agrees
  <2>7. Shaped(rec) BY <1>1, <1>4, <2>2 DEF CommandOk, Shaped, StepsOf
  <2>8. IdentitySoFar(rec, Fresh, remote) BY <2>2 DEF IdentitySoFar
  <2>9. StateSoFar(rec, Fresh) BY <2>2, <2>5 DEF StateSoFar
  <2>10. RestoredSoFar(rec) BY <2>2, <2>4, <2>6 DEF RestoredSoFar
  <2>11. Receipt(p, rec, remote) BY <2>2 DEF Receipt
  <2>12. CommandOk(p, rec, Fresh, remote) BY <2>7, <2>8, <2>9, <2>10, <2>11 DEF CommandOk
  <2> QED BY <1>3, <2>1, <2>2, <2>12, CommandAlone DEF Early
<1>8. CASE Fault(p, "rollback") BY <1>3, <1>8, FaultKeeps DEF Undoable
<1> QED BY <1>7, <1>8 DEF CheckBindings

(* A restore that has committed goes on, or fails, with the state it has.      *)
LEMMA RestoreGoesOn ==
    ASSUME ProvisioningInvariant, NEW p \in Procs, run[p].pc \in {"move", "install"},
           NEW pc \in {"install", "ok", "failed"}, Goto(p, pc) \/ Fault(p, pc),
           remote' = remote, DOMAIN home' = {"there", "state"}, StateSound(home'.state, Fresh),
           \A s \in aside' : StateSound(s, Fresh)
    PROVE  ProvisioningInvariant'
<1>1. PICK rec : run' = [run EXCEPT ![p] = rec] /\ Alike(rec, run[p], pc) BY GoesTo
<1>2. CommandOk(p, run[p], Fresh, remote) BY DEF ProvisioningInvariant
<1>3. run[p].created = {} BY <1>2 DEF CommandOk, Receipt, Bare
<1>4. CommandOk(p, rec, Fresh, remote)
  <2>1. CASE pc = "failed" BY <1>1, <1>2, <1>3, <2>1, FailsBare
  <2>2. CASE pc \in {"install", "ok"}
    <3> USE <1>1, <1>2, <2>2 DEF CommandOk, Alike
    <3>1. Shaped(rec) BY DEF Shaped, StepsOf, Ends, IdentitySteps
    <3>2. IdentitySoFar(rec, Fresh, remote) BY DEF IdentitySoFar
    <3>3. StateSoFar(rec, Fresh) BY DEF StateSoFar
    <3>4. RestoredSoFar(rec) BY DEF RestoredSoFar
    <3>5. Receipt(p, rec, remote) BY <1>3 DEF Receipt
    <3> QED BY <3>1, <3>2, <3>3, <3>4, <3>5 DEF CommandOk
  <2> QED BY <2>1, <2>2
<1>5. rec.pc \notin Early BY <1>1 DEF Alike, Early
<1> QED BY <1>1, <1>4, <1>5, CommandGoesOn

LEMMA MoveKeeps ==
    ASSUME ProvisioningInvariant, NEW p \in Procs, MoveAside(p) PROVE ProvisioningInvariant'
<1>1. /\ run[p].pc = "move" /\ remote' = remote
      /\ Goto(p, "install") \/ Fault(p, "failed")
      /\ \/ home' = home /\ aside' = aside
         \/ aside' = aside \cup {home.state} /\ home' = [there |-> FALSE, state |-> EmptyState]
  BY DEF MoveAside, At, disk
<1>2. StateSound(EmptyState, Fresh)
  BY DEF StateSound, StateKnown, KeyKnown, Sound, EmptyState, NoIdentity
<1>3. DOMAIN home' = {"there", "state"} /\ StateSound(home'.state, Fresh)
      /\ \A s \in aside' : StateSound(s, Fresh)
  BY <1>1, <1>2 DEF ProvisioningInvariant, Disk
<1>4. PICK pc \in {"install", "ok", "failed"} : Goto(p, pc) \/ Fault(p, pc) BY <1>1
<1> QED BY <1>1, <1>3, <1>4, RestoreGoesOn

LEMMA InstallKeeps ==
    ASSUME ProvisioningInvariant, NEW p \in Procs, Install(p) PROVE ProvisioningInvariant'
<1>1. /\ run[p].pc = "install" /\ remote' = remote
      /\ \E pc \in {"install", "ok", "failed"} : Goto(p, pc) \/ Fault(p, pc)
      /\ \/ home' = [there |-> TRUE, state |-> run[p].state] /\ aside' = aside
         \/ home' = home /\ aside' = aside
         \/ \E s \in aside : home' = [there |-> TRUE, state |-> s] /\ aside' = aside \ {s}
  BY DEF Install, At
<1>2. StateSound(run[p].state, Fresh)
  BY <1>1 DEF ProvisioningInvariant, CommandOk, StateSoFar
<1>3. DOMAIN home' = {"there", "state"} /\ StateSound(home'.state, Fresh)
      /\ \A s \in aside' : StateSound(s, Fresh)
  BY <1>1, <1>2 DEF ProvisioningInvariant, Disk
<1>4. PICK pc \in {"install", "ok", "failed"} : Goto(p, pc) \/ Fault(p, pc) BY <1>1
<1> QED BY <1>1, <1>3, <1>4, RestoreGoesOn

LEMMA CrashKeeps ==
    ASSUME ProvisioningInvariant, NEW p \in Procs, Crash(p) PROVE ProvisioningInvariant'
<1>1. CommandOk(p, run[p], Fresh, remote) /\ run = [q \in Procs |-> run[q]]
  BY DEF ProvisioningInvariant
<1>2. DOMAIN run[p] = DOMAIN Idle BY <1>1 DEF CommandOk, Shaped
<1>3. /\ run[p].pc \notin {"idle", "ok", "failed", "dead"}
      /\ remote' = remote /\ home' = home /\ aside' = aside
      /\ run' = [run EXCEPT ![p].pc = "dead", ![p].leak = TRUE]
  BY DEF Crash, Running, disk
<1> DEFINE rec == [run[p] EXCEPT !.pc = "dead", !.leak = TRUE]
<1>4. run' = [run EXCEPT ![p] = rec] BY <1>1, <1>3
<1>5. /\ DOMAIN rec = DOMAIN Idle /\ rec.pc = "dead" /\ rec.command = run[p].command
      /\ rec.state = run[p].state /\ rec.identity = run[p].identity
      /\ rec.created = run[p].created
      /\ rec.leak = TRUE /\ rec.committed = run[p].committed
  BY <1>2 DEF Idle
<1> HIDE DEF rec
<1>6. Shaped(rec) BY <1>1, <1>5 DEF CommandOk, Shaped, StepsOf, Ends
<1>7. IdentitySoFar(rec, Fresh, remote) BY <1>5 DEF IdentitySoFar
<1>8. StateSoFar(rec, Fresh) BY <1>1, <1>5 DEF CommandOk, StateSoFar
<1>9. RestoredSoFar(rec) BY <1>5 DEF RestoredSoFar
<1>10. Receipt(p, rec, remote) BY <1>1, <1>5 DEF CommandOk, Receipt, Bare
<1>11. CommandOk(p, rec, Fresh, remote) BY <1>6, <1>7, <1>8, <1>9, <1>10 DEF CommandOk
<1> QED BY <1>3, <1>4, <1>5, <1>11, CommandAlone DEF Early

-------------------------------------------------------------------------------
LEMMA ProvisioningStep == ProvisioningInvariant /\ [Next]_vars => ProvisioningInvariant'
<1> SUFFICES ASSUME ProvisioningInvariant, [Next]_vars PROVE ProvisioningInvariant' OBVIOUS
<1>1. CASE UNCHANGED vars
  <2>1. run' = run /\ remote' = remote /\ home' = home /\ aside' = aside BY <1>1 DEF vars
  <2>2. Fresh' = Fresh BY <2>1 DEF Fresh
  <2> QED BY <2>1, <2>2 DEF ProvisioningInvariant, OneUser, Disk
<1>2. ASSUME NEW p \in Procs,
             \/ \E c \in CommandsOf[p] : Begin(p, c)
             \/ Deploy(p) \/ EnsureUser(p) \/ EnsureKey(p) \/ EnsureTeam(p) \/ VerifyAuth(p)
             \/ Rollback(p) \/ SaveIdentity(p) \/ EnsureAgent(p) \/ WriteEnv(p) \/ SaveBinding(p)
             \/ CheckBindings(p) \/ MoveAside(p) \/ Install(p) \/ Crash(p)
      PROVE  ProvisioningInvariant'
  <2>1. CASE \E c \in CommandsOf[p] : Begin(p, c) BY <2>1, BeginKeeps
  <2>2. CASE EnsureUser(p)
    <3>1. \/ List(p, "user", "user", {x \in remote : x.kind = "user"}, "key", "userCreate")
          \/ CreateNamed(p, "userCreate", "user", User(p), \E x \in remote : x.kind = "user", "key")
      BY <2>2 DEF EnsureUser
    <3> QED BY <3>1, UserListKeeps, UserMadeKeeps
  <2>3. CASE EnsureTeam(p)
    <3>1. \/ List(p, "team", "team", Of("team", run[p].identity.user), "verify", "teamCreate")
          \/ CreateNamed(p, "teamCreate", "team", Team(run[p].identity.user, p),
                         Of("team", run[p].identity.user) # {}, "verify")
      BY <2>3 DEF EnsureTeam
    <3> QED BY <3>1, TeamListKeeps, TeamMadeKeeps
  <2> QED BY <1>2, <2>1, <2>2, <2>3, DeployKeeps, KeyKeeps, VerifyKeeps, RollbackKeeps,
             SaveIdentityKeeps, AgentKeeps, EnvKeeps, SaveBindingKeeps, BindingsKeep, MoveKeeps,
             InstallKeeps, CrashKeeps
<1> QED BY <1>1, <1>2 DEF Next

LEMMA ProvisioningHolds == Spec => []ProvisioningInvariant
BY ProvisioningInit, ProvisioningStep, PTL DEF Spec

(* For any number of commands at once, of machines that were set up or not and *)
(* of providers that lost their data or not, global.json names a key and a     *)
(* team of the user it names (VerifyAuth before saveGlobal).                   *)
THEOREM IdentityConsistentHolds == Spec => []IdentityConsistent
<1>1. ProvisioningInvariant => IdentityConsistent
  BY DEF ProvisioningInvariant, Disk, StateSound, Sound, IdentityConsistent
<1> QED BY <1>1, ProvisioningHolds, PTL

(* A command that failed before it committed left nothing behind, but for lost *)
(* answers, failed deletions and keys without an id (Rollback).                *)
THEOREM FailedLeavesNothingHolds == Spec => []FailedLeavesNothing
<1>1. ProvisioningInvariant => FailedLeavesNothing
  <2> SUFFICES ASSUME ProvisioningInvariant, NEW p \in Procs, run[p].pc = "failed",
                      ~run[p].committed, ~run[p].leak, NEW x \in remote, x.maker = p
               PROVE  x.kind = "agent"
    BY DEF FailedLeavesNothing
  <2>1. Receipt(p, run[p], remote) BY DEF ProvisioningInvariant, CommandOk
  <2> QED BY <2>1 DEF Receipt, Bare
<1> QED BY <1>1, ProvisioningHolds, PTL

(* A restore that went through has installed the account and the bindings of   *)
(* its archive, whatever else was made or deleted at the provider meanwhile    *)
(* (restoreTencentState).                                                      *)
THEOREM RestoredSameAccountHolds == Spec => []RestoredSameAccount
<1>1. ProvisioningInvariant => RestoredSameAccount
  <2> SUFFICES ASSUME ProvisioningInvariant, NEW p \in Procs, Restoring(p), run[p].pc = "ok"
               PROVE  /\ run[p].state.identity.user = Archive.identity.user
                      /\ run[p].state.identity.team = Archive.identity.team
                      /\ run[p].state.bindings = Archive.bindings
    BY DEF RestoredSameAccount
  <2>1. RestoredSoFar(run[p]) BY DEF ProvisioningInvariant, CommandOk
  <2> QED BY <2>1 DEF RestoredSoFar, Restoring, RestoreOf, Op
<1> QED BY <1>1, ProvisioningHolds, PTL

(* A command deletes at the provider only what it made itself, and only while  *)
(* it rolls back (IdentityProvision.Rollback).                                 *)
THEOREM OwnRollbackHolds == Spec => OwnRollback
<1> DEFINE Own == \A x \in remote \ remote' : x.maker \in Procs /\ At(x.maker, "rollback")
<1>1. ProvisioningInvariant /\ [Next]_vars => [Own]_vars
  <2> SUFFICES ASSUME ProvisioningInvariant, Next PROVE Own BY DEF vars
  <2>1. PICK p \in Procs :
             \/ \E c \in CommandsOf[p] : Begin(p, c)
             \/ Deploy(p) \/ EnsureUser(p) \/ EnsureKey(p) \/ EnsureTeam(p) \/ VerifyAuth(p)
             \/ Rollback(p) \/ SaveIdentity(p) \/ EnsureAgent(p) \/ WriteEnv(p) \/ SaveBinding(p)
             \/ CheckBindings(p) \/ MoveAside(p) \/ Install(p) \/ Crash(p)
    BY DEF Next
  <2>2. CASE Rollback(p)
    <3>1. At(p, "rollback") /\ \A x \in remote \ remote' : x \in run[p].created
      BY <2>2 DEF Rollback
    <3>2. \A x \in run[p].created : x.maker = p
      BY DEF ProvisioningInvariant, CommandOk, Receipt
    <3> QED BY <3>1, <3>2
  <2>3. CASE ~Rollback(p)
    <3>1. remote \subseteq remote'
      BY <2>1, <2>3 DEF Begin, Deploy, EnsureUser, EnsureKey, EnsureTeam, List, CreateNamed,
         VerifyAuth, SaveIdentity, EnsureAgent, WriteEnv, SaveBinding, CheckBindings, MoveAside,
         Install, Crash
    <3> QED BY <3>1
  <2> QED BY <2>2, <2>3
<1>2. ProvisioningInvariant /\ [][Next]_vars => [][Own]_vars
  BY <1>1, ProvisioningStep, PTL
<1> QED BY <1>1, ProvisioningHolds, PTL DEF Spec, OwnRollback

(* Each step of a restore keeps the state it replaces, in its place or in a    *)
(* sibling directory (RestoreArchiveWithOptions).                              *)
THEOREM PreviousKeptHolds == Spec => PreviousKept
<1> DEFINE Previous == \A p \in Procs : Restoring(p) /\ run'[p] # run[p] => Kept \subseteq Kept'
<1>1. ProvisioningInvariant /\ [Next]_vars => [Previous]_vars
  <2> SUFFICES ASSUME ProvisioningInvariant, Next, NEW p \in Procs, Restoring(p), run'[p] # run[p]
               PROVE  Kept \subseteq Kept'
    BY DEF vars
  <2>1. PICK q \in Procs :
             \/ \E c \in CommandsOf[q] : Begin(q, c)
             \/ Deploy(q) \/ EnsureUser(q) \/ EnsureKey(q) \/ EnsureTeam(q) \/ VerifyAuth(q)
             \/ Rollback(q) \/ SaveIdentity(q) \/ EnsureAgent(q) \/ WriteEnv(q) \/ SaveBinding(q)
             \/ CheckBindings(q) \/ MoveAside(q) \/ Install(q) \/ Crash(q)
    BY DEF Next
  <2>2. CASE SaveIdentity(q) \/ SaveBinding(q)
    <3>1. ~Restoring(q)
      BY <2>2 DEF SaveIdentity, SaveBinding, Restoring
    <3>2. \E rec : run' = [run EXCEPT ![q] = rec]
      <4>1. CASE SaveIdentity(q) BY <4>1 DEF SaveIdentity, Fault
      <4>2. CASE SaveBinding(q) BY <4>2 DEF SaveBinding, Fault, Goto
      <4> QED BY <2>2, <4>1, <4>2
    <3>3. run'[p] = run[p] BY <3>1, <3>2
    <3> QED BY <3>3
  <2>3. CASE Deploy(q)
    <3>1. aside' = aside /\ (home' = home \/ home' = [home EXCEPT !.there = TRUE])
      BY <2>3 DEF Deploy, Checkout, disk
    <3>2. home'.state = home.state /\ (home.there => home'.there)
      BY <3>1 DEF ProvisioningInvariant, Disk
    <3> QED BY <3>1, <3>2 DEF Kept
  <2>4. CASE MoveAside(q)
    <3>1. \/ home' = home /\ aside' = aside
          \/ aside' = aside \cup {home.state}
      BY <2>4 DEF MoveAside, disk
    <3> QED BY <3>1 DEF Kept
  <2>5. CASE Install(q)
    <3>1. \/ home' = home /\ aside' = aside
          \/ ~home.there /\ aside' = aside
          \/ ~home.there /\ \E s \in aside : home' = [there |-> TRUE, state |-> s] /\ aside' = aside \ {s}
      BY <2>5 DEF Install
    <3> QED BY <3>1 DEF Kept
  <2>6. CASE ~(SaveIdentity(q) \/ SaveBinding(q) \/ Deploy(q) \/ MoveAside(q) \/ Install(q))
    <3>1. home' = home /\ aside' = aside
      BY <2>1, <2>6 DEF Begin, EnsureUser, EnsureKey, EnsureTeam, List, CreateNamed, VerifyAuth,
         Rollback, EnsureAgent, WriteEnv, CheckBindings, Crash, disk
    <3> QED BY <3>1 DEF Kept
  <2> QED BY <2>2, <2>3, <2>4, <2>5, <2>6
<1> QED BY <1>1, ProvisioningHolds, PTL DEF Spec, PreviousKept

===============================================================================
