-------------------------- MODULE HostLifecycleProofs --------------------------
(* The commands on the host, for any keys, releases, failures and kills: an    *)
(* executable can always be recovered, only verified releases are put in its   *)
(* place, an uninstall that reports success has left nothing of a complete     *)
(* installation (HostInvariant); a rotation of the key changes every store or  *)
(* none, and a bundle that reports success has put everything in place         *)
(* (KeyInvariant).                                                             *)
EXTENDS HostLifecycle, TLAPS, WellFoundedInduction

(* The least-number principle, by which the recursive definition is reasoned   *)
(* about.                                                                      *)
LEMMA LeastNumber ==
    ASSUME NEW T, T \subseteq Nat, T # {}
    PROVE  \E n \in T : \A m \in T : n <= m
<1> DEFINE R == OpToRel(<, Nat)
<1>1. IsWellFoundedOn(R, Nat) BY NatLessThanWellFounded
<1>2. \A m, n \in Nat : m < n => <<m, n>> \in R BY DEF OpToRel
<1> HIDE DEF R
<1>3. PICK n \in T : \A m \in T : ~(<<m, n>> \in R)
  BY <1>1, WFMin
<1>4. ASSUME NEW m \in T PROVE n <= m
  <2>1. m \in Nat /\ n \in Nat OBVIOUS
  <2>2. ~ (m < n) BY <2>1, <1>2, <1>3
  <2> QED BY <2>1, <2>2
<1> QED BY <1>4

(* One more step of the plan, from its end.                                    *)
FromEnd(plan, n) == plan[Len(plan) + 1 - n]

RemainingNext(plan, chosen, n, rest) ==
    IF FromEnd(plan, n) \in chosen THEN <<FromEnd(plan, n)>> \o rest ELSE rest

RemainingUpTo(plan, chosen, x, h) ==
    h = [n \in 0..x |-> IF n = 0 THEN <<>> ELSE RemainingNext(plan, chosen, n, h[n-1])]

LEMMA RemainingExist ==
    ASSUME NEW plan, NEW chosen, NEW x \in Nat
    PROVE  \E h : RemainingUpTo(plan, chosen, x, h)
<1> DEFINE Has(y) == \E h : RemainingUpTo(plan, chosen, y, h)
           T == {y \in Nat : ~Has(y)}
<1> SUFFICES ASSUME T # {} PROVE FALSE OBVIOUS
<1>1. T \subseteq Nat /\ \A y \in T : ~Has(y) OBVIOUS
<1>2. \A y \in Nat \ T : Has(y) OBVIOUS
<1> HIDE DEF T
<1>3. PICK y \in T : \A m \in T : y <= m BY <1>1, LeastNumber
<1>4. y \in Nat BY <1>1
<1>5. y # 0
  <2> DEFINE g == [n \in 0..0 |-> <<>>]
  <2>1. g = [n \in 0..0 |-> IF n = 0 THEN <<>> ELSE RemainingNext(plan, chosen, n, g[n-1])] OBVIOUS
  <2> HIDE DEF g
  <2>2. RemainingUpTo(plan, chosen, 0, g) BY <2>1 DEF RemainingUpTo
  <2> QED BY <2>2, <1>1
<1>6. y - 1 \in Nat /\ y - 1 \notin T BY <1>3, <1>4, <1>5
<1>7. PICK h : RemainingUpTo(plan, chosen, y - 1, h) BY <1>2, <1>6
<1> DEFINE g == [n \in 0..y |-> IF n = y THEN RemainingNext(plan, chosen, y, h[y-1]) ELSE h[n]]
<1>8. \A n \in 0..y : g[n] = IF n = 0 THEN <<>> ELSE RemainingNext(plan, chosen, n, g[n-1])
  <2> TAKE n \in 0..y
  <2>1. CASE n = y BY <2>1, <1>4, <1>5
  <2>2. CASE n # y
    <3>1. n \in 0..(y-1) /\ (n # 0 => n - 1 \in 0..(y-1)) BY <2>2, <1>4
    <3>2. h[n] = IF n = 0 THEN <<>> ELSE RemainingNext(plan, chosen, n, h[n-1])
      BY <3>1, <1>7 DEF RemainingUpTo
    <3> QED BY <3>1, <3>2, <2>2, <1>4
  <2> QED BY <2>1, <2>2
<1>9. g = [n \in 0..y |-> IF n = 0 THEN <<>> ELSE RemainingNext(plan, chosen, n, g[n-1])]
  <2>1. g = [n \in 0..y |-> g[n]] OBVIOUS
  <2> HIDE DEF g
  <2> QED BY <2>1, <1>8
<1> HIDE DEF g
<1> QED BY <1>9, <1>3, <1>1 DEF RemainingUpTo

LEMMA RemainingIs ==
    ASSUME NEW plan, NEW chosen, Len(plan) \in Nat
    PROVE  RemainingUpTo(plan, chosen, Len(plan), Remaining(plan, chosen))
<1> DEFINE h == CHOOSE g : RemainingUpTo(plan, chosen, Len(plan), g)
<1>1. RemainingUpTo(plan, chosen, Len(plan), h) BY RemainingExist
<1>2. Remaining(plan, chosen) = h BY DEF Remaining, RemainingUpTo, RemainingNext, FromEnd
<1> QED BY <1>1, <1>2

Left(plan, chosen, n) == Remaining(plan, chosen)[n]

LEMMA LeftIs ==
    ASSUME NEW S, NEW plan \in Seq(S), NEW chosen
    PROVE  /\ Len(plan) \in Nat
           /\ Left(plan, chosen, 0) = <<>>
           /\ \A n \in 1..Len(plan) :
                 /\ FromEnd(plan, n) \in S
                 /\ Left(plan, chosen, n) = RemainingNext(plan, chosen, n, Left(plan, chosen, n - 1))
<1>1. Len(plan) \in Nat OBVIOUS
<1>2. RemainingUpTo(plan, chosen, Len(plan), Remaining(plan, chosen)) BY <1>1, RemainingIs
<1>3. \A n \in 0..Len(plan) :
         Left(plan, chosen, n) =
            IF n = 0 THEN <<>> ELSE RemainingNext(plan, chosen, n, Left(plan, chosen, n - 1))
  BY <1>2 DEF RemainingUpTo, Left
<1>4. \A n \in 1..Len(plan) : FromEnd(plan, n) \in S
  <2> SUFFICES ASSUME NEW n \in 1..Len(plan) PROVE FromEnd(plan, n) \in S
    OBVIOUS
  <2>1. Len(plan) + 1 - n \in 1..Len(plan) BY <1>1
  <2> QED BY <2>1 DEF FromEnd
<1> QED BY <1>1, <1>3, <1>4

LEMMA LeftSeq ==
    ASSUME NEW S, NEW plan \in Seq(S), NEW chosen, NEW n \in 0..Len(plan)
    PROVE  Left(plan, chosen, n) \in Seq(S)
<1> DEFINE T == {k \in 0..Len(plan) : Left(plan, chosen, k) \notin Seq(S)}
<1> SUFFICES ASSUME T # {} PROVE FALSE OBVIOUS
<1>1. Len(plan) \in Nat /\ T \subseteq Nat OBVIOUS
<1>2. \A k \in T : k \in 0..Len(plan) /\ Left(plan, chosen, k) \notin Seq(S) OBVIOUS
<1>3. \A k \in 0..Len(plan) : k \notin T => Left(plan, chosen, k) \in Seq(S) OBVIOUS
<1> HIDE DEF T
<1>4. PICK k \in T : \A m \in T : k <= m BY <1>1, LeastNumber
<1>5. k # 0
  <2>1. Left(plan, chosen, 0) = <<>> BY LeftIs
  <2>2. <<>> \in Seq(S) OBVIOUS
  <2> QED BY <1>2, <2>1, <2>2
<1>6. k \in 1..Len(plan) /\ k - 1 \in 0..Len(plan) /\ k - 1 \notin T BY <1>1, <1>2, <1>4, <1>5
<1>7. Left(plan, chosen, k - 1) \in Seq(S) /\ FromEnd(plan, k) \in S BY <1>3, <1>6, LeftIs
<1>8. Left(plan, chosen, k) = RemainingNext(plan, chosen, k, Left(plan, chosen, k - 1)) BY <1>6, LeftIs
<1>9. Left(plan, chosen, k) \in Seq(S) BY <1>7, <1>8 DEF RemainingNext
<1> QED BY <1>2, <1>9

(* What is left of a plan begins with the next step that was chosen, and is    *)
(* over when none is left that was.                                            *)

Over(plan, chosen, n) ==
    Left(plan, chosen, n) = <<>> /\ \A j \in 1..n : FromEnd(plan, j) \notin chosen

BeginsAt(plan, chosen, n, m) ==
    /\ FromEnd(plan, m) \in chosen
    /\ Left(plan, chosen, n) = <<FromEnd(plan, m)>> \o Left(plan, chosen, m - 1)
    /\ \A j \in (m + 1)..n : FromEnd(plan, j) \notin chosen

LEMMA LeftBegins ==
    ASSUME NEW S, NEW plan \in Seq(S), NEW chosen, NEW n \in 0..Len(plan)
    PROVE  Over(plan, chosen, n) \/ \E m \in 1..n : BeginsAt(plan, chosen, n, m)
<1> DEFINE Ok(k) == Over(plan, chosen, k) \/ \E m \in 1..k : BeginsAt(plan, chosen, k, m)
           T == {k \in 0..Len(plan) : ~Ok(k)}
<1> SUFFICES ASSUME T # {} PROVE FALSE OBVIOUS
<1>1. Len(plan) \in Nat /\ T \subseteq Nat OBVIOUS
<1>2. \A k \in T : k \in 0..Len(plan) /\ ~Ok(k) OBVIOUS
<1>3. \A k \in 0..Len(plan) : k \notin T => Ok(k) OBVIOUS
<1> HIDE DEF T
<1>4. PICK k \in T : \A m \in T : k <= m BY <1>1, LeastNumber
<1>5. k # 0 BY <1>2, LeftIs DEF Over
<1>6. /\ k \in Nat /\ k \in 1..Len(plan) /\ k - 1 \in 0..Len(plan) /\ k - 1 \notin T
  BY <1>1, <1>2, <1>4, <1>5
<1>7. Left(plan, chosen, k) = RemainingNext(plan, chosen, k, Left(plan, chosen, k - 1)) BY <1>6, LeftIs
<1>8. FromEnd(plan, k) \notin chosen
  <2> SUFFICES ASSUME FromEnd(plan, k) \in chosen PROVE BeginsAt(plan, chosen, k, k)
    BY <1>2, <1>6
  <2>1. \A j \in (k + 1)..k : FALSE BY <1>6
  <2> QED BY <1>7, <2>1 DEF RemainingNext, BeginsAt
<1>9. Left(plan, chosen, k) = Left(plan, chosen, k - 1) BY <1>7, <1>8 DEF RemainingNext
<1>10. Ok(k - 1) BY <1>3, <1>6
<1>11. CASE Over(plan, chosen, k - 1)
  <2>1. \A j \in 1..k : j = k \/ j \in 1..(k-1) BY <1>6
  <2>2. Over(plan, chosen, k) BY <1>8, <1>9, <1>11, <2>1 DEF Over
  <2> QED BY <1>2, <2>2
<1>12. ASSUME NEW m \in 1..(k-1), BeginsAt(plan, chosen, k - 1, m) PROVE FALSE
  <2>1. \A j \in (m+1)..k : j = k \/ j \in (m+1)..(k-1) BY <1>6
  <2>2. BeginsAt(plan, chosen, k, m) BY <1>8, <1>9, <1>12, <2>1 DEF BeginsAt
  <2>3. m \in 1..k BY <1>6
  <2> QED BY <1>2, <2>2, <2>3
<1> QED BY <1>10, <1>11, <1>12

-------------------------------------------------------------------------------
(* The uninstaller's plan. *)
LEMMA OrderIs ==
    /\ Order \in Seq(RemovalSteps) /\ Len(Order) = 18
    /\ FromEnd(Order, 18) = "hooks" /\ FromEnd(Order, 17) = "gitignore" /\ FromEnd(Order, 16) = "patch"
    /\ FromEnd(Order, 15) = "key" /\ FromEnd(Order, 14) = "containers" /\ FromEnd(Order, 13) = "runtime"
    /\ FromEnd(Order, 12) = "global" /\ FromEnd(Order, 11) = "baseline" /\ FromEnd(Order, 10) = "codex"
    /\ FromEnd(Order, 9) = "dsh" /\ FromEnd(Order, 8) = "dshReceipt" /\ FromEnd(Order, 7) = "codexReceipt"
    /\ FromEnd(Order, 6) = "tencentReceipt" /\ FromEnd(Order, 5) = "project" /\ FromEnd(Order, 4) = "tencent"
    /\ FromEnd(Order, 3) = "executable" /\ FromEnd(Order, 2) = "backups" /\ FromEnd(Order, 1) = "permissions"
<1>1. Len(Order) = 18 BY DEF Order
<1>2. Order \in Seq(RemovalSteps) BY DEF Order, RemovalSteps, Parts, Listable, Receipts
<1> QED BY <1>1, <1>2 DEF FromEnd, Order

-------------------------------------------------------------------------------
(* The executables that are in place or kept. *)
IsBinary(b) == DOMAIN b = DOMAIN NoBinary /\ b.release \in Release

Kept1(bks) == \E b \in bks : b.checked

BinaryOk(c, bin, bks) ==
    /\ bin = NoBinary \/ IsBinary(bin)
    /\ \A b \in bks : IsBinary(b)
    /\ bin = NoBinary => c.op = "uninstall"
    /\ bin # NoBinary /\ ~bin.checked => c.pc \in {"validate", "restore"} \/ Kept1(bks)

(* What an update has asked of its release at each step, and the backup that   *)
(* it has made, from which or beside which one that was validated is there.    *)
UpdateOk(c, bin, bks) ==
    /\ c.pc \in {"check", "sums", "launch", "backup", "replace"} =>
          c.release \in Release /\ (c.release.version > bin.release.version \/ c.op = "install")
    /\ c.pc \in {"sums", "launch", "backup", "replace"} => Manifested(c.release)
    /\ c.pc \in {"launch", "backup", "replace"} => Genuine(c.release)
    /\ c.pc \in {"backup", "replace"} => c.release.launches
    /\ c.pc \in {"replace", "validate", "restore"} => c.backup \in bks /\ Kept1(bks)

(* An uninstall's own steps are those of the removal. *)
OpOk(c) ==
    /\ DOMAIN c = DOMAIN Idle
    /\ c.op = "uninstall" => c.pc \in {"idle", "remove", "ok", "failed", "dead"}
    /\ c.pc = "remove" => c.op = "uninstall"

(* What the removal of a step leaves behind. *)
Done(step) ==
    /\ step \in Parts \ {"containers"} => parts[step] = "gone"
    /\ step = "containers" /\ cmd.whole /\ Reaches(cmd.docker) => parts["containers"] = "gone"
    /\ step = "key" => stores["dsh"] = None
    /\ step = "tencent" => stores["tencent"] = None
    /\ step = "runtime" => stores["strix"] = None
    /\ step = "executable" => binary = NoBinary
    /\ step = "backups" => backups = {}
    /\ step = "permissions" => cmd.warned \/ \A l \in Launchers : launchers[l] # "baron"

Lenient == {"containers", "runtime", "permissions"}
DoneOrWarned(step) == Done(step) \/ (step \in Lenient /\ cmd.warned)

(* The chosen steps before the n-th from the end are done, and of a complete   *)
(* installation Tencent's deployment is whole until its own step.              *)
DoneBefore(chosen, n) ==
    /\ \A j \in (n + 1)..18 : FromEnd(Order, j) \in chosen => DoneOrWarned(FromEnd(Order, j))
    /\ cmd.whole /\ n >= 4 => parts["tencent"] = "whole"

FixedSteps == FixedParts \cup {"key", "executable", "backups", "permissions"}

ChosenOk(chosen) ==
    /\ FixedSteps \subseteq chosen
    /\ cmd.whole => \A step \in RemovalSteps : step \in chosen \/ (step = "runtime" /\ ~cmd.purge)

RemovalOk ==
    /\ {cmd.warned, cmd.whole, cmd.purge} \subseteq BOOLEAN
    /\ \E chosen \in SUBSET RemovalSteps, n \in 0..18 :
          /\ ChosenOk(chosen)
          /\ cmd.todo = Left(Order, chosen, n)
          /\ DoneBefore(chosen, n)

HostInvariant ==
    /\ OpOk(cmd)
    /\ BinaryOk(cmd, binary, backups)
    /\ UpdateOk(cmd, binary, backups)
    /\ cmd.pc = "remove" => RemovalOk
    /\ UninstallComplete

LEMMA HostInit == Init => HostInvariant
<1> SUFFICES ASSUME Init PROVE HostInvariant
  OBVIOUS
<1>1. cmd = Idle /\ Idle.pc = "idle" /\ Idle.op = None BY DEF Init, Idle
<1>2. binary.release = Installed /\ binary.checked = TRUE /\ DOMAIN binary = DOMAIN NoBinary /\ backups = {}
  BY DEF Init, NoBinary
<1>3. binary # NoBinary BY <1>2, HostConstants DEF NoBinary
<1> QED BY <1>1, <1>2, <1>3, HostConstants
     DEF HostInvariant, OpOk, BinaryOk, UpdateOk, IsBinary, UninstallComplete, At

-------------------------------------------------------------------------------
(* The commands but the uninstaller, outside an update's own steps. *)
Updating == {"check", "sums", "launch", "backup", "replace", "validate", "restore"}
Aside    == {"latest", "stage", "backupKeys", "commit", "undo", "reload", "integrate",
             "record", "enable", "disable"}
Calm     == Aside \cup {"ok", "failed", "dead"}

Goes(pcs) == DOMAIN cmd' = DOMAIN cmd /\ cmd'.op = cmd.op /\ cmd'.pc \in pcs
NoChange  == UNCHANGED <<binary, backups>>

LEMMA Works ==
    ASSUME HostInvariant, cmd.pc \in Aside \cup Updating, Goes(Calm), NoChange
    PROVE  HostInvariant'
<1>1. OpOk(cmd) /\ BinaryOk(cmd, binary, backups) /\ UpdateOk(cmd, binary, backups)
  BY DEF HostInvariant
<1>2. cmd.op # "uninstall" BY <1>1 DEF OpOk, Aside, Updating
<1>3. DOMAIN cmd' = DOMAIN cmd /\ cmd'.op = cmd.op /\ cmd'.pc \in Calm BY DEF Goes
<1>4. binary' = binary /\ backups' = backups BY DEF NoChange
<1>5. cmd'.pc # "remove" /\ cmd'.pc \notin Updating BY <1>3 DEF Calm, Aside, Updating
<1>6. OpOk(cmd)' BY <1>1, <1>2, <1>3, <1>5 DEF OpOk
<1>7. binary # NoBinary /\ ~binary.checked => Kept1(backups)
  BY <1>1 DEF BinaryOk, UpdateOk
<1>8. BinaryOk(cmd, binary, backups)'
  BY <1>1, <1>2, <1>4, <1>7 DEF BinaryOk
<1>9. UpdateOk(cmd, binary, backups)' BY <1>5 DEF UpdateOk, Updating
<1>10. UninstallComplete' BY <1>2, <1>3 DEF UninstallComplete
<1> QED BY <1>5, <1>6, <1>8, <1>9, <1>10 DEF HostInvariant

LEMMA GotoIs ==
    ASSUME NEW pc, OpOk(cmd), Goto(pc)
    PROVE  /\ DOMAIN cmd' = DOMAIN cmd /\ cmd'.pc = pc
           /\ \A x \in DOMAIN Idle \ {"pc"} : cmd'[x] = cmd[x]
<1>1. DOMAIN cmd = DOMAIN Idle /\ "pc" \in DOMAIN Idle BY DEF OpOk, Idle
<1> QED BY <1>1 DEF Goto

(* An update's command goes to its next step, or it has failed. *)
LEMMA AsideGoto ==
    ASSUME HostInvariant, cmd.pc \in Aside \cup Updating, NEW pc \in Calm, Goto(pc), NoChange
    PROVE  HostInvariant'
<1>1. OpOk(cmd) BY DEF HostInvariant
<1>2. "op" \in DOMAIN Idle \ {"pc"} BY DEF Idle
<1>3. Goes(Calm) BY <1>1, <1>2, GotoIs DEF Goes
<1> QED BY <1>3, Works

LEMMA SteppedIs ==
    ASSUME OpOk(cmd), cmd' = Stepped
    PROVE  /\ DOMAIN cmd' = DOMAIN cmd /\ cmd'.todo = Tail(cmd.todo)
           /\ \A x \in DOMAIN Idle \ {"todo"} : cmd'[x] = cmd[x]
<1>1. DOMAIN cmd = DOMAIN Idle /\ "todo" \in DOMAIN Idle BY DEF OpOk, Idle
<1> QED BY <1>1 DEF Stepped

LEMMA AsideStepped ==
    ASSUME HostInvariant, cmd.pc \in Aside, cmd' = Stepped, NoChange
    PROVE  HostInvariant'
<1>1. OpOk(cmd) BY DEF HostInvariant
<1>2. "op" \in DOMAIN Idle \ {"todo"} /\ "pc" \in DOMAIN Idle \ {"todo"} BY DEF Idle
<1>3. Goes(Calm) BY <1>1, <1>2, SteppedIs DEF Goes, Calm
<1> QED BY <1>3, Works

(* A command begins with an executable in place. *)
LEMMA Begins ==
    ASSUME HostInvariant, NEW op, NEW record, Begin(op, record),
           DOMAIN record = DOMAIN Idle, op # "uninstall", record.pc \in Aside
    PROVE  HostInvariant'
<1>1. /\ OpOk(cmd) /\ BinaryOk(cmd, binary, backups) /\ UpdateOk(cmd, binary, backups)
      /\ binary # NoBinary /\ binary' = binary /\ backups' = backups /\ Ended
  BY DEF HostInvariant, Begin, host
<1>2. DOMAIN cmd' = DOMAIN Idle /\ cmd'.op = op /\ cmd'.pc = record.pc
  <2>1. cmd' = [record EXCEPT !.op = op, !.stores = stores] BY DEF Begin
  <2>2. {"op", "pc", "stores"} \subseteq DOMAIN Idle BY DEF Idle
  <2> QED BY <2>1, <2>2
<1>3. cmd'.pc # "remove" /\ cmd'.pc \notin Updating /\ cmd'.pc # "ok" BY <1>2 DEF Aside, Updating
<1>4. OpOk(cmd)' BY <1>2, <1>3 DEF OpOk
<1>5. ~binary.checked => Kept1(backups) BY <1>1 DEF BinaryOk, Ended
<1>6. BinaryOk(cmd, binary, backups)' BY <1>1, <1>5 DEF BinaryOk
<1>7. UpdateOk(cmd, binary, backups)' BY <1>3 DEF UpdateOk, Updating
<1>8. UninstallComplete' BY <1>2 DEF UninstallComplete
<1> QED BY <1>3, <1>4, <1>6, <1>7, <1>8 DEF HostInvariant

LEMMA BeginsAside ==
    ASSUME HostInvariant,
           BeginUpdate \/ BeginRotate \/ BeginResolve \/ BeginBundle \/ BeginPermissions
    PROVE  HostInvariant'
<1>1. CASE BeginUpdate
  <2>1. PICK op \in {"update", "install"} : Begin(op, [Idle EXCEPT !.pc = "latest"])
    BY <1>1 DEF BeginUpdate
  <2> DEFINE r == [Idle EXCEPT !.pc = "latest"]
  <2>2. DOMAIN r = DOMAIN Idle /\ r.pc \in Aside BY DEF Idle, Aside
  <2> HIDE DEF r
  <2>3. Begin(op, r) BY <2>1 DEF r
  <2> QED BY <2>2, <2>3, Begins
<1>2. ASSUME NEW op, op # "uninstall", NEW k, NEW all, Begin(op, Rotating(k, all)) PROVE HostInvariant'
  <2>1. DOMAIN Rotating(k, all) = DOMAIN Idle /\ Rotating(k, all).pc \in Aside
    BY DEF Rotating, Idle, Aside
  <2> QED BY <1>2, <2>1, Begins
<1>3. CASE BeginRotate BY <1>2, <1>3 DEF BeginRotate
<1>4. CASE BeginResolve BY <1>2, <1>4 DEF BeginResolve
<1>5. CASE BeginBundle
  <2>1. PICK here \in BOOLEAN :
           Begin("bundle", [Idle EXCEPT !.pc = "integrate", !.todo = Bundle(here), !.here = here])
    BY <1>5 DEF BeginBundle
  <2> DEFINE r == [Idle EXCEPT !.pc = "integrate", !.todo = Bundle(here), !.here = here]
  <2>2. DOMAIN r = DOMAIN Idle /\ r.pc \in Aside BY DEF Idle, Aside
  <2> HIDE DEF r
  <2>3. Begin("bundle", r) BY <2>1 DEF r
  <2> QED BY <2>2, <2>3, Begins
<1>6. CASE BeginPermissions
  <2> DEFINE e == [Idle EXCEPT !.pc = "record", !.todo = <<"dsh", "codex">>]
             d == [Idle EXCEPT !.pc = "disable", !.todo = <<"dsh", "codex">>]
  <2>1. DOMAIN e = DOMAIN Idle /\ e.pc \in Aside /\ DOMAIN d = DOMAIN Idle /\ d.pc \in Aside
    BY DEF Idle, Aside
  <2>2. Begin("enable", e) \/ Begin("disable", d) BY <1>6 DEF BeginPermissions
  <2> HIDE DEF e, d
  <2> QED BY <2>1, <2>2, Begins
<1> QED BY <1>1, <1>3, <1>4, <1>5, <1>6

(* The rotation of the key. *)
LEMMA RotationSteps ==
    ASSUME HostInvariant, Stage \/ BackupKeys \/ Commit \/ UndoKey \/ EndUndo \/ Reload
    PROVE  HostInvariant'
<1>1. OpOk(cmd) /\ DOMAIN cmd = DOMAIN Idle BY DEF HostInvariant, OpOk
<1>2. {"op", "pc", "todo", "done", "later", "staged", "torn", "saved"} \subseteq DOMAIN Idle BY DEF Idle
<1>3. NoChange /\ cmd.pc \in Aside
  BY DEF Stage, BackupKeys, Commit, UndoKey, EndUndo, Reload, NoChange, host, At, Aside
<1>4. CASE Stage
  <2>1. Goes(Calm) BY <1>1, <1>2, <1>4 DEF Stage, Goes, Calm, Aside, At, Unstage
  <2> QED BY <2>1, <1>3, Works
<1>5. CASE BackupKeys
  <2>1. Goes(Calm) BY <1>1, <1>2, <1>5 DEF BackupKeys, Goes, Calm, Aside, At, Unstage, Goto
  <2> QED BY <2>1, <1>3, Works
<1>6. CASE Commit
  <2>1. Goes(Calm) BY <1>1, <1>2, <1>6 DEF Commit, Goes, Calm, Aside, At, Goto
  <2> QED BY <2>1, <1>3, Works
<1>7. CASE UndoKey
  <2>1. Goes(Calm) BY <1>1, <1>2, <1>7 DEF UndoKey, Goes, Calm, Aside, At
  <2> QED BY <2>1, <1>3, Works
<1>8. CASE EndUndo
  <2>1. Goes(Calm) BY <1>1, <1>2, <1>8 DEF EndUndo, Goes, Calm, Unstage
  <2> QED BY <2>1, <1>3, Works
<1>9. CASE Reload
  <2>1. Goes(Calm) BY <1>1, <1>2, <1>9 DEF Reload, Goes, Calm, Goto
  <2> QED BY <2>1, <1>3, Works
<1> QED BY <1>4, <1>5, <1>6, <1>7, <1>8, <1>9

(* The bundle's own steps. *)
LEMMA BundleSteps ==
    ASSUME HostInvariant,
           \/ ApplyRuntime \/ ResolveKey \/ InstallDSHAdapter \/ EnsureDSHProfilePatch
           \/ EnsureDSHBaseline \/ InstallCodexAdapter \/ MergeCodexHooks \/ WriteReceipt \/ SaveState
           \/ Healthy \/ Checkout \/ StartServices \/ WriteManifest \/ SetupProject \/ EndBundle
    PROVE  HostInvariant'
<1>1. OpOk(cmd) /\ DOMAIN cmd = DOMAIN Idle BY DEF HostInvariant, OpOk
<1>2. {"failed", "latest", "integrate", "stage"} \subseteq Calm /\ "integrate" \in Aside BY DEF Calm, Aside
<1>3. ASSUME NEW x, Integrating(x), Put(x) PROVE HostInvariant'
  <2>1. NoChange /\ cmd.pc \in Aside BY <1>2, <1>3 DEF Put, Integrating, NoChange, At
  <2>2. cmd' = Stepped \/ Goto("failed") BY <1>3 DEF Put
  <2> QED BY <2>1, <2>2, <1>2, AsideStepped, AsideGoto
<1>4. CASE ApplyRuntime BY <1>3, <1>4 DEF ApplyRuntime
<1>5. CASE InstallDSHAdapter BY <1>3, <1>5 DEF InstallDSHAdapter
<1>6. CASE EnsureDSHProfilePatch BY <1>3, <1>6 DEF EnsureDSHProfilePatch
<1>7. CASE EnsureDSHBaseline BY <1>3, <1>7 DEF EnsureDSHBaseline
<1>8. CASE InstallCodexAdapter BY <1>3, <1>8 DEF InstallCodexAdapter
<1>9. CASE MergeCodexHooks BY <1>3, <1>9 DEF MergeCodexHooks
<1>10. CASE WriteReceipt BY <1>3, <1>10 DEF WriteReceipt
<1>11. CASE StartServices BY <1>3, <1>11 DEF StartServices
<1>12. CASE SetupProject BY <1>3, <1>12 DEF SetupProject
<1>13. CASE SaveState \/ Checkout \/ WriteManifest
  <2>1. NoChange /\ cmd.pc \in Aside
    BY <1>2, <1>13 DEF SaveState, Checkout, WriteManifest, Integrating, NoChange, At
  <2>2. cmd' = Stepped \/ Goto("failed") BY <1>13 DEF SaveState, Checkout, WriteManifest
  <2> QED BY <2>1, <2>2, <1>2, AsideStepped, AsideGoto
<1>14. CASE EndBundle
  <2>1. NoChange /\ cmd.pc \in Aside /\ Goto("latest")
    BY <1>2, <1>14 DEF EndBundle, NoChange, At, host
  <2> QED BY <2>1, <1>2, AsideGoto
<1>15. CASE ResolveKey
  <2>1. NoChange /\ cmd.pc \in Aside
    BY <1>2, <1>15 DEF ResolveKey, Integrating, NoChange, At, host
  <2>2. {"op", "pc", "key", "later", "todo", "done", "stores"} \subseteq DOMAIN Idle BY DEF Idle
  <2>3. CASE Goto("failed") BY <1>2, <2>1, <2>3, AsideGoto
  <2>4. CASE ~Goto("failed")
    <3>1. PICK k, later, todo :
              cmd' = [cmd EXCEPT !.pc = "stage", !.key = k, !.later = later,
                                 !.todo = todo, !.done = <<>>, !.stores = stores]
      <4>1. \/ \E k \in Keys, env \in Keys \cup {None} : Resolves(k, env) /\
                  cmd' = [cmd EXCEPT !.pc = "stage", !.key = k, !.later = Tail(cmd.todo),
                                     !.todo = Targets(FALSE), !.done = <<>>, !.stores = stores]
            \/ Goto("failed")
        BY <1>15, Zenon DEF ResolveKey
      <4>2. PICK k \in Keys :
              cmd' = [cmd EXCEPT !.pc = "stage", !.key = k, !.later = Tail(cmd.todo),
                                 !.todo = Targets(FALSE), !.done = <<>>, !.stores = stores]
        BY <2>4, <4>1, Zenon
      <4> QED BY <4>2, Zenon
    <3>2. cmd'.pc = "stage" /\ cmd'.op = cmd.op /\ DOMAIN cmd' = DOMAIN cmd BY <3>1, <1>1, <2>2
    <3>3. Goes(Calm) BY <3>2, <1>2 DEF Goes
    <3> QED BY <2>1, <3>3, Works
  <2> QED BY <2>3, <2>4
<1>16. CASE Healthy
  <2>1. NoChange /\ cmd.pc = "integrate"
    BY <1>16 DEF Healthy, Integrating, NoChange, At, host
  <2>2. {"op", "pc", "todo"} \subseteq DOMAIN Idle BY DEF Idle
  <2>3. Goes(Calm) BY <1>1, <1>2, <1>16, <2>1, <2>2 DEF Healthy, Goes
  <2> QED BY <1>2, <2>1, <2>3, Works
<1> QED BY <1>4, <1>5, <1>6, <1>7, <1>8, <1>9, <1>10, <1>11, <1>12, <1>13, <1>14, <1>15, <1>16

(* The permission launchers. *)
LEMMA PermissionSteps ==
    ASSUME HostInvariant, RecordDirectory \/ EnableLauncher \/ DisableLauncher \/ EndPermissions
    PROVE  HostInvariant'
<1>1. OpOk(cmd) /\ DOMAIN cmd = DOMAIN Idle BY DEF HostInvariant, OpOk
<1>2. {"op", "pc", "todo", "created"} \subseteq DOMAIN Idle BY DEF Idle
<1>3. NoChange /\ cmd.pc \in {"record", "enable", "disable"}
  BY DEF RecordDirectory, EnableLauncher, DisableLauncher, EndPermissions, NoChange, host, At
<1>4. CASE RecordDirectory
  <2>1. Goes(Calm) BY <1>1, <1>2, <1>4 DEF RecordDirectory, Goes, Calm, Aside, Goto
  <2> QED BY <2>1, <1>3, Works DEF Aside
<1>5. CASE EnableLauncher
  <2>1. Goes(Calm) BY <1>1, <1>2, <1>3, <1>5 DEF EnableLauncher, Goes, Calm, Aside, Goto
  <2> QED BY <2>1, <1>3, Works DEF Aside
<1>6. CASE DisableLauncher
  <2>1. Goes(Calm) BY <1>1, <1>2, <1>3, <1>6 DEF DisableLauncher, Goes, Calm, Aside, Goto
  <2> QED BY <2>1, <1>3, Works DEF Aside
<1>7. CASE EndPermissions
  <2>1. Goes(Calm) BY <1>1, <1>2, <1>7 DEF EndPermissions, Goes, Calm, Goto
  <2> QED BY <2>1, <1>3, Works DEF Aside
<1> QED BY <1>4, <1>5, <1>6, <1>7

-------------------------------------------------------------------------------
(* The self update, step by step. *)
LEMMA UpdateSteps ==
    ASSUME HostInvariant,
           \/ Latest \/ CheckManifest \/ CheckSums \/ CheckLaunch
           \/ BackupBinary \/ ReplaceBinary \/ ValidateBinary \/ RestoreBinary
    PROVE  HostInvariant'
<1>1. OpOk(cmd) /\ BinaryOk(cmd, binary, backups) /\ UpdateOk(cmd, binary, backups) /\ DOMAIN cmd = DOMAIN Idle
  BY DEF HostInvariant, OpOk
<1>2. {"op", "pc", "release", "backup"} \subseteq DOMAIN Idle BY DEF Idle
<1>3. "failed" \in Calm /\ "ok" \in Calm BY DEF Calm
<1>4. cmd.pc \in Aside \cup Updating /\ cmd.pc # "ok"
  BY DEF Latest, CheckManifest, CheckSums, CheckLaunch, Checked, BackupBinary, ReplaceBinary,
         ValidateBinary, RestoreBinary, At, Aside, Updating
<1>5. cmd.op # "uninstall" BY <1>1, <1>4 DEF OpOk, Aside, Updating
<1>6. binary # NoBinary /\ IsBinary(binary) /\ \A b \in backups : IsBinary(b)
  BY <1>1, <1>5 DEF BinaryOk
<1>7. ASSUME NoChange, Goto("failed") \/ Goto("ok") PROVE HostInvariant'
  BY <1>3, <1>4, <1>7, AsideGoto
(* An update that goes on: its own invariants are all there is to show. *)
<1>8. ASSUME DOMAIN cmd' = DOMAIN cmd, cmd'.op = cmd.op, cmd'.pc \notin {"remove", "ok"},
             BinaryOk(cmd, binary, backups)', UpdateOk(cmd, binary, backups)'
      PROVE  HostInvariant'
  <2>1. OpOk(cmd)' BY <1>1, <1>5, <1>8 DEF OpOk
  <2>2. UninstallComplete' BY <1>5, <1>8 DEF UninstallComplete
  <2> QED BY <1>8, <2>1, <2>2 DEF HostInvariant
<1>9. CASE Latest
  <2>1. binary' = binary /\ backups' = backups /\ At("latest") BY <1>9 DEF Latest, host
  <2>2. CASE Goto("failed") BY <1>7, <2>1, <2>2 DEF NoChange
  <2>3. CASE ~Goto("failed")
    <3>1. PICK release \in Releases :
             cmd' = [cmd EXCEPT !.release = release,
                !.pc = IF cmd.op # "install" /\ UpToDate(release) THEN "ok" ELSE "check"]
      BY <1>9, <2>3 DEF Latest
    <3>2. release \in Release BY HostConstants
    <3>3. DOMAIN cmd' = DOMAIN cmd /\ cmd'.op = cmd.op /\ cmd'.release = release
      BY <1>1, <1>2, <3>1
    <3>4. cmd'.pc = IF cmd.op # "install" /\ UpToDate(release) THEN "ok" ELSE "check"
      BY <1>1, <1>2, <3>1
    <3>5. CASE cmd.op # "install" /\ UpToDate(release)
      BY <1>3, <1>4, <2>1, <3>3, <3>4, <3>5, Works DEF Goes, NoChange
    <3>6. CASE ~(cmd.op # "install" /\ UpToDate(release))
      <4>1. cmd'.pc = "check" BY <3>4, <3>6
      <4>2. release.version \in Nat /\ binary.release.version \in Nat
        BY <1>6, <3>2 DEF IsBinary, Release
      <4>3. release.version > binary.release.version \/ cmd.op = "install"
        BY <3>6, <4>2 DEF UpToDate
      <4>4. UpdateOk(cmd, binary, backups)' BY <2>1, <3>2, <3>3, <4>1, <4>3 DEF UpdateOk
      <4>5. BinaryOk(cmd, binary, backups)' BY <1>1, <1>6, <2>1, <3>3 DEF BinaryOk, At
      <4> QED BY <1>8, <3>3, <4>1, <4>4, <4>5
    <3> QED BY <3>5, <3>6
  <2> QED BY <2>2, <2>3
(* What was asked of the download holds when it goes on. *)
<1>10. ASSUME NEW pc, NEW holds, NEW next, Checked(pc, holds, next), pc \in Updating,
              holds => next \in Updating \ {"validate", "restore"}
       PROVE  \/ HostInvariant'
              \/ /\ holds /\ cmd.pc = pc /\ cmd'.pc = next /\ DOMAIN cmd' = DOMAIN cmd
                 /\ cmd'.op = cmd.op /\ cmd'.release = cmd.release
                 /\ binary' = binary /\ backups' = backups
  <2>1. cmd.pc = pc /\ binary' = binary /\ backups' = backups BY <1>10 DEF Checked, At, host
  <2>2. CASE Goto("failed") BY <1>7, <2>1, <2>2 DEF NoChange
  <2>3. CASE ~Goto("failed")
    <3>1. holds /\ Goto(next) BY <1>10, <2>3 DEF Checked
    <3>2. "op" \in DOMAIN Idle \ {"pc"} /\ "release" \in DOMAIN Idle \ {"pc"} BY DEF Idle
    <3> QED BY <1>1, <2>1, <3>1, <3>2, GotoIs
  <2> QED BY <2>2, <2>3
<1>11. CASE CheckManifest
  <2>1. SUFFICES ASSUME Manifested(cmd.release), cmd.pc = "check", cmd'.pc = "sums", DOMAIN cmd' = DOMAIN cmd,
                        cmd'.op = cmd.op, cmd'.release = cmd.release, binary' = binary, backups' = backups
                 PROVE  HostInvariant'
    <3>1. Checked("check", Manifested(cmd.release), "sums") BY <1>11 DEF CheckManifest
    <3>2. "check" \in Updating /\ "sums" \in Updating \ {"validate", "restore"} BY DEF Updating
    <3> QED BY <1>10, <3>1, <3>2
  <2>2. Manifested(cmd'.release) BY <2>1
  <2>3. UpdateOk(cmd, binary, backups)' BY <1>1, <2>1, <2>2 DEF UpdateOk
  <2>4. BinaryOk(cmd, binary, backups)' BY <1>1, <1>6, <2>1 DEF BinaryOk
  <2> QED BY <1>8, <2>1, <2>3, <2>4
<1>12. CASE CheckSums
  <2>1. SUFFICES ASSUME cmd.release.checksum, cmd.pc = "sums", cmd'.pc = "launch", DOMAIN cmd' = DOMAIN cmd,
                        cmd'.op = cmd.op, cmd'.release = cmd.release, binary' = binary, backups' = backups
                 PROVE  HostInvariant'
    <3>1. Checked("sums", cmd.release.checksum, "launch") BY <1>12 DEF CheckSums
    <3>2. "sums" \in Updating /\ "launch" \in Updating \ {"validate", "restore"} BY DEF Updating
    <3> QED BY <1>10, <3>1, <3>2
  <2>2. Genuine(cmd'.release) /\ Manifested(cmd'.release) BY <1>1, <2>1 DEF UpdateOk, Genuine
  <2>3. UpdateOk(cmd, binary, backups)' BY <1>1, <2>1, <2>2 DEF UpdateOk
  <2>4. BinaryOk(cmd, binary, backups)' BY <1>1, <1>6, <2>1 DEF BinaryOk
  <2> QED BY <1>8, <2>1, <2>3, <2>4
<1>13. CASE CheckLaunch
  <2>1. SUFFICES ASSUME cmd.release.launches, cmd.pc = "launch", cmd'.pc = "backup", DOMAIN cmd' = DOMAIN cmd,
                        cmd'.op = cmd.op, cmd'.release = cmd.release, binary' = binary, backups' = backups
                 PROVE  HostInvariant'
    <3>1. Checked("launch", cmd.release.launches, "backup") BY <1>13 DEF CheckLaunch
    <3>2. "launch" \in Updating /\ "backup" \in Updating \ {"validate", "restore"} BY DEF Updating
    <3> QED BY <1>10, <3>1, <3>2
  <2>2. Genuine(cmd'.release) /\ Manifested(cmd'.release) BY <1>1, <2>1 DEF UpdateOk
  <2>3. UpdateOk(cmd, binary, backups)' BY <1>1, <2>1, <2>2 DEF UpdateOk
  <2>4. BinaryOk(cmd, binary, backups)' BY <1>1, <1>6, <2>1 DEF BinaryOk
  <2> QED BY <1>8, <2>1, <2>3, <2>4
<1>14. CASE BackupBinary
  <2>1. binary' = binary /\ cmd.pc = "backup" BY <1>14 DEF BackupBinary, At
  <2>2. CASE Goto("failed") /\ backups' = backups BY <1>7, <2>1, <2>2 DEF NoChange
  <2>3. CASE backups' = backups \cup {binary} /\ cmd' = [cmd EXCEPT !.pc = "replace", !.backup = binary]
    <3>1. /\ DOMAIN cmd' = DOMAIN cmd /\ cmd'.pc = "replace" /\ cmd'.backup = binary
          /\ cmd'.op = cmd.op /\ cmd'.release = cmd.release
      BY <1>1, <1>2, <2>3
    <3>2. Kept1(backups') BY <1>1, <1>6, <2>1, <2>3 DEF BinaryOk, Kept1
    <3>3. /\ cmd'.release \in Release /\ (cmd'.release.version > binary.release.version \/ cmd'.op = "install")
          /\ Manifested(cmd'.release) /\ Genuine(cmd'.release) /\ cmd'.release.launches
      BY <1>1, <2>1, <3>1 DEF UpdateOk
    <3>4. UpdateOk(cmd, binary, backups)' BY <2>1, <2>3, <3>1, <3>2, <3>3 DEF UpdateOk
    <3>5. BinaryOk(cmd, binary, backups)' BY <1>1, <1>6, <2>1, <2>3, <3>1, <3>2 DEF BinaryOk
    <3> QED BY <1>8, <3>1, <3>4, <3>5
  <2> QED BY <1>14, <2>2, <2>3 DEF BackupBinary
<1>15. ASSUME NEW pc \in {"validate", "restore"}, Goto(pc)
       PROVE  DOMAIN cmd' = DOMAIN cmd /\ cmd'.pc = pc /\ cmd'.op = cmd.op /\ cmd'.backup = cmd.backup
  <2>1. "op" \in DOMAIN Idle \ {"pc"} /\ "backup" \in DOMAIN Idle \ {"pc"} BY DEF Idle
  <2> QED BY <1>1, <1>15, <2>1, GotoIs
<1>16. CASE ReplaceBinary
  <2>1. backups' = backups /\ cmd.pc = "replace" BY <1>16 DEF ReplaceBinary, At
  <2>2. CASE Goto("failed") /\ binary' = binary BY <1>7, <2>1, <2>2 DEF NoChange
  <2>3. CASE binary' = [release |-> cmd.release, checked |-> FALSE] /\ Goto("validate")
    <3>1. DOMAIN cmd' = DOMAIN cmd /\ cmd'.pc = "validate" /\ cmd'.op = cmd.op /\ cmd'.backup = cmd.backup
      BY <1>15, <2>3
    <3>2. IsBinary(binary') BY <1>1, <2>1, <2>3 DEF UpdateOk, IsBinary, NoBinary
    <3>3. binary' # NoBinary BY <1>1, <2>1, <2>3, HostConstants DEF UpdateOk, NoBinary, Release
    <3>4. UpdateOk(cmd, binary, backups)' BY <1>1, <2>1, <3>1 DEF UpdateOk
    <3>5. BinaryOk(cmd, binary, backups)' BY <1>6, <2>1, <3>1, <3>2, <3>3 DEF BinaryOk
    <3> QED BY <1>8, <3>1, <3>4, <3>5
  <2> QED BY <1>16, <2>2, <2>3 DEF ReplaceBinary
<1>17. CASE ValidateBinary
  <2>1. backups' = backups /\ cmd.pc = "validate" BY <1>17 DEF ValidateBinary, At
  <2>2. CASE binary' = [binary EXCEPT !.checked = TRUE] /\ Goto("ok")
    <3>1. DOMAIN binary = {"release", "checked"} BY <1>6 DEF IsBinary, NoBinary
    <3>2. binary'.checked = TRUE /\ binary'.release = binary.release /\ DOMAIN binary' = DOMAIN binary
      BY <2>2, <3>1
    <3>3. DOMAIN cmd' = DOMAIN cmd /\ cmd'.pc = "ok" /\ cmd'.op = cmd.op
      <4>1. "op" \in DOMAIN Idle \ {"pc"} BY DEF Idle
      <4> QED BY <1>1, <2>2, <4>1, GotoIs
    <3>4. IsBinary(binary') /\ binary' # NoBinary BY <1>6, <3>2 DEF IsBinary, NoBinary
    <3>5. BinaryOk(cmd, binary, backups)' BY <1>6, <2>1, <3>2, <3>4 DEF BinaryOk
    <3>6. OpOk(cmd)' BY <1>1, <1>5, <3>3 DEF OpOk
    <3>7. UpdateOk(cmd, binary, backups)' BY <3>3 DEF UpdateOk
    <3>8. UninstallComplete' BY <1>5, <3>3 DEF UninstallComplete
    <3> QED BY <3>3, <3>5, <3>6, <3>7, <3>8 DEF HostInvariant
  <2>3. CASE binary' = binary /\ Goto("restore")
    <3>1. DOMAIN cmd' = DOMAIN cmd /\ cmd'.pc = "restore" /\ cmd'.op = cmd.op /\ cmd'.backup = cmd.backup
      BY <1>15, <2>3
    <3>2. UpdateOk(cmd, binary, backups)' BY <1>1, <2>1, <2>3, <3>1 DEF UpdateOk
    <3>3. BinaryOk(cmd, binary, backups)' BY <1>6, <2>1, <2>3, <3>1 DEF BinaryOk
    <3> QED BY <1>8, <3>1, <3>2, <3>3
  <2> QED BY <1>17, <2>2, <2>3 DEF ValidateBinary
<1>18. CASE RestoreBinary
  <2>1. cmd.pc = "restore" /\ Goto("failed") BY <1>18 DEF RestoreBinary, At
  <2>2. CASE UNCHANGED <<binary, backups>> BY <1>7, <2>1, <2>2 DEF NoChange
  <2>3. CASE binary' = cmd.backup /\ backups' = backups \ {cmd.backup}
    <3>1. DOMAIN cmd' = DOMAIN cmd /\ cmd'.pc = "failed" /\ cmd'.op = cmd.op
      <4>1. "op" \in DOMAIN Idle \ {"pc"} BY DEF Idle
      <4> QED BY <1>1, <2>1, <4>1, GotoIs
    <3>2. cmd.backup \in backups /\ Kept1(backups) BY <1>1, <2>1 DEF UpdateOk
    <3>3. IsBinary(binary') /\ \A b \in backups' : IsBinary(b) BY <1>6, <2>3, <3>2
    <3>4. binary' # NoBinary BY <3>3, HostConstants DEF IsBinary, NoBinary
    <3>5. ~binary'.checked => Kept1(backups') BY <2>3, <3>2 DEF Kept1
    <3>6. BinaryOk(cmd, binary, backups)' BY <3>3, <3>4, <3>5 DEF BinaryOk
    <3>7. UpdateOk(cmd, binary, backups)' BY <3>1 DEF UpdateOk
    <3> QED BY <1>8, <3>1, <3>6, <3>7
  <2> QED BY <1>18, <2>2, <2>3 DEF RestoreBinary
<1> QED BY <1>9, <1>11, <1>12, <1>13, <1>14, <1>16, <1>17, <1>18

-------------------------------------------------------------------------------
(* The uninstaller.  Every step of its plan has its one place. *)
LEMMA OrderPlaces ==
    /\ \A step \in RemovalSteps : \E j \in 1..18 : FromEnd(Order, j) = step
    /\ \A j \in 1..18 : /\ FromEnd(Order, j) = "tencent" => j = 4
                        /\ FromEnd(Order, j) = "executable" => j = 3
                        /\ FromEnd(Order, j) = "backups" => j = 2
                        /\ FromEnd(Order, j) = "containers" => j = 14
<1>1. ASSUME NEW j \in 1..18
      PROVE  \/ j = 1 \/ j = 2 \/ j = 3 \/ j = 4 \/ j = 5 \/ j = 6 \/ j = 7 \/ j = 8 \/ j = 9
             \/ j = 10 \/ j = 11 \/ j = 12 \/ j = 13 \/ j = 14 \/ j = 15 \/ j = 16 \/ j = 17 \/ j = 18
  OBVIOUS
<1>2. ASSUME NEW j \in 1..18
      PROVE  /\ FromEnd(Order, j) = "tencent" => j = 4
             /\ FromEnd(Order, j) = "executable" => j = 3
             /\ FromEnd(Order, j) = "backups" => j = 2
             /\ FromEnd(Order, j) = "containers" => j = 14
  BY <1>1, OrderIs
<1>3. ASSUME NEW step \in RemovalSteps PROVE \E j \in 1..18 : FromEnd(Order, j) = step
  <2>1. 1 \in 1..18 /\ 2 \in 1..18 /\ 3 \in 1..18 /\ 4 \in 1..18 /\ 5 \in 1..18 /\ 6 \in 1..18
        /\ 7 \in 1..18 /\ 8 \in 1..18 /\ 9 \in 1..18 /\ 10 \in 1..18 /\ 11 \in 1..18 /\ 12 \in 1..18
        /\ 13 \in 1..18 /\ 14 \in 1..18 /\ 15 \in 1..18 /\ 16 \in 1..18 /\ 17 \in 1..18 /\ 18 \in 1..18
    OBVIOUS
  <2>2. \/ step = "hooks" \/ step = "gitignore" \/ step = "patch" \/ step = "key" \/ step = "containers"
        \/ step = "runtime" \/ step = "global" \/ step = "baseline" \/ step = "codex" \/ step = "dsh"
        \/ step = "dshReceipt" \/ step = "codexReceipt" \/ step = "tencentReceipt" \/ step = "project"
        \/ step = "tencent" \/ step = "executable" \/ step = "backups" \/ step = "permissions"
    BY DEF RemovalSteps, Parts, Listable, Receipts
  <2> QED BY <2>1, <2>2, OrderIs
<1> QED BY <1>2, <1>3

(* The next step of a removal: the last n of the plan have it first, those     *)
(* before it are done.                                                         *)
NextIs(chosen, m, step) ==
    /\ m \in 1..18 /\ step = FromEnd(Order, m) /\ step \in chosen
    /\ Tail(cmd.todo) = Left(Order, chosen, m - 1)
    /\ DoneBefore(chosen, m)

LEMMA RemovalHead ==
    ASSUME RemovalOk, cmd.todo # <<>>
    PROVE  \E chosen \in SUBSET RemovalSteps, m \in 1..18 :
              ChosenOk(chosen) /\ NextIs(chosen, m, Head(cmd.todo))
<1>1. PICK chosen \in SUBSET RemovalSteps, n \in 0..18 :
         ChosenOk(chosen) /\ cmd.todo = Left(Order, chosen, n) /\ DoneBefore(chosen, n)
  BY DEF RemovalOk
<1>2. Order \in Seq(RemovalSteps) /\ n \in 0..Len(Order) BY OrderIs
<1>3. PICK m \in 1..n : BeginsAt(Order, chosen, n, m)
  BY <1>1, <1>2, LeftBegins DEF Over
<1>4. m \in 1..18 /\ m - 1 \in 0..Len(Order) /\ n >= m BY OrderIs
<1>5. Left(Order, chosen, m - 1) \in Seq(RemovalSteps) BY <1>2, <1>4, LeftSeq
<1>6. FromEnd(Order, m) \in chosen /\ FromEnd(Order, m) \in RemovalSteps BY <1>3 DEF BeginsAt
<1>7. cmd.todo = <<FromEnd(Order, m)>> \o Left(Order, chosen, m - 1) BY <1>1, <1>3 DEF BeginsAt
<1>8. Head(cmd.todo) = FromEnd(Order, m) /\ Tail(cmd.todo) = Left(Order, chosen, m - 1)
  BY <1>5, <1>6, <1>7
<1>9. DoneBefore(chosen, m)
  <2>1. ASSUME NEW j \in (m + 1)..18, FromEnd(Order, j) \in chosen PROVE DoneOrWarned(FromEnd(Order, j))
    <3>1. j \notin (m + 1)..n BY <1>3, <2>1 DEF BeginsAt
    <3>2. j \in (n + 1)..18 BY <3>1
    <3> QED BY <1>1, <2>1, <3>2 DEF DoneBefore
  <2>2. cmd.whole /\ m >= 4 => parts["tencent"] = "whole" BY <1>1, <1>4 DEF DoneBefore
  <2> QED BY <2>1, <2>2 DEF DoneBefore
<1> QED BY <1>1, <1>4, <1>6, <1>8, <1>9 DEF NextIs

LEMMA LedNotEmpty ==
    ASSUME NEW S, NEW a \in S, NEW rest \in Seq(S)
    PROVE  <<>> # <<a>> \o rest
<1> DEFINE all == <<a>> \o rest
           none == <<>>
<1>1. Len(all) = 1 + Len(rest) /\ Len(rest) \in Nat OBVIOUS
<1>2. Len(none) = 0 OBVIOUS
<1>3. all # none
  <2> HIDE DEF all, none
  <2> QED BY <1>1, <1>2
<1> QED BY <1>3

LEMMA RemovalOver ==
    ASSUME RemovalOk, cmd.todo = <<>>
    PROVE  \E chosen \in SUBSET RemovalSteps :
              ChosenOk(chosen) /\ \A step \in chosen : DoneOrWarned(step)
<1>1. PICK chosen \in SUBSET RemovalSteps, n \in 0..18 :
         ChosenOk(chosen) /\ cmd.todo = Left(Order, chosen, n) /\ DoneBefore(chosen, n)
  BY DEF RemovalOk
<1>2. Order \in Seq(RemovalSteps) /\ n \in 0..Len(Order) BY OrderIs
<1>3. ASSUME NEW m \in 1..n, BeginsAt(Order, chosen, n, m) PROVE FALSE
  <2>1. m - 1 \in 0..Len(Order) BY OrderIs
  <2>2. Left(Order, chosen, m - 1) \in Seq(RemovalSteps) BY <1>2, <2>1, LeftSeq
  <2>3. FromEnd(Order, m) \in RemovalSteps BY <1>3 DEF BeginsAt
  <2>4. <<>> = <<FromEnd(Order, m)>> \o Left(Order, chosen, m - 1) BY <1>1, <1>3 DEF BeginsAt
  <2> QED BY <2>2, <2>3, <2>4, LedNotEmpty
<1>4. Over(Order, chosen, n) BY <1>2, <1>3, LeftBegins
<1>5. ASSUME NEW step \in chosen PROVE DoneOrWarned(step)
  <2>1. PICK j \in 1..18 : FromEnd(Order, j) = step BY OrderPlaces
  <2>2. j \notin 1..n BY <1>4, <2>1 DEF Over
  <2>3. j \in (n + 1)..18 BY <2>2
  <2> QED BY <1>1, <2>1, <2>3 DEF DoneBefore
<1> QED BY <1>1, <1>5

(* A removal takes nothing back. *)
StaysDone ==
    /\ \A x \in Parts : parts[x] = "gone" => parts'[x] = "gone"
    /\ \A s \in Stores : stores[s] = None => stores'[s] = None
    /\ \A l \in Launchers : launchers[l] # "baron" => launchers'[l] # "baron"
    /\ binary = NoBinary => binary' = NoBinary
    /\ backups = {} => backups' = {}
    /\ cmd.warned => cmd'.warned
    /\ resolved' = resolved

Proceeds == /\ DOMAIN cmd' = DOMAIN cmd /\ cmd'.pc = cmd.pc /\ cmd'.op = cmd.op
            /\ cmd'.whole = cmd.whole /\ cmd'.purge = cmd.purge
            /\ cmd'.todo = Tail(cmd.todo) /\ cmd'.warned \in BOOLEAN
            /\ Head(cmd.todo) # "containers" => cmd'.docker = cmd.docker

LEMMA StaysDoneIs ==
    ASSUME NEW step, StaysDone, Proceeds, DoneOrWarned(step),
           step = "containers" => Head(cmd.todo) # "containers"
    PROVE  DoneOrWarned(step)'
<1>1. "dsh" \in Stores /\ "tencent" \in Stores /\ "strix" \in Stores BY DEF Stores
<1>2. cmd'.whole = cmd.whole /\ (cmd.warned => cmd'.warned) BY DEF Proceeds, StaysDone
<1>3. CASE Done(step)
  <2>1. step \in Parts \ {"containers"} => parts'[step] = "gone"
    BY <1>3 DEF Done, StaysDone
  <2>5. step = "containers" /\ cmd'.whole /\ Reaches(cmd.docker)' => parts'["containers"] = "gone"
    <3> SUFFICES ASSUME step = "containers", cmd'.whole, Reaches(cmd.docker)' PROVE parts'["containers"] = "gone"
      OBVIOUS
    <3>1. cmd'.docker = cmd.docker /\ resolved' = resolved BY DEF Proceeds, StaysDone
    <3>2. Reaches(cmd.docker) BY <3>1 DEF Reaches
    <3>3. "containers" \in Parts BY DEF Parts
    <3> QED BY <1>2, <1>3, <3>2, <3>3 DEF Done, StaysDone
  <2>2. /\ step = "key" => stores'["dsh"] = None
        /\ step = "tencent" => stores'["tencent"] = None
        /\ step = "runtime" => stores'["strix"] = None
    BY <1>1, <1>3 DEF Done, StaysDone
  <2>3. /\ step = "executable" => binary' = NoBinary
        /\ step = "backups" => backups' = {}
        /\ step = "permissions" => cmd'.warned \/ \A l \in Launchers : launchers'[l] # "baron"
    BY <1>3 DEF Done, StaysDone
  <2>4. Done(step)' BY <2>1, <2>2, <2>3, <2>5 DEF Done
  <2> QED BY <2>4 DEF DoneOrWarned
<1>4. CASE step \in Lenient /\ cmd.warned BY <1>2, <1>4 DEF DoneOrWarned, Lenient
<1> QED BY <1>3, <1>4 DEF DoneOrWarned

LEMMA RemovalGoes ==
    ASSUME RemovalOk, StaysDone, Proceeds,
           NEW chosen \in SUBSET RemovalSteps, NEW m \in 1..18, NEW step,
           ChosenOk(chosen), NextIs(chosen, m, step), step = Head(cmd.todo),
           DoneOrWarned(step)',
           step # "tencent" => parts'["tencent"] = parts["tencent"]
    PROVE  RemovalOk'
<1>1. /\ cmd'.todo = Left(Order, chosen, m - 1) /\ step = FromEnd(Order, m)
      /\ DoneBefore(chosen, m) /\ m - 1 \in 0..18
  BY DEF Proceeds, NextIs
<1>2. cmd'.whole = cmd.whole /\ cmd'.purge = cmd.purge BY DEF Proceeds
<1>3. ChosenOk(chosen)' BY <1>2 DEF ChosenOk
<1>4. \A j \in m..18 : FromEnd(Order, j) \in chosen => DoneOrWarned(FromEnd(Order, j))'
  <2> SUFFICES ASSUME NEW j \in m..18, FromEnd(Order, j) \in chosen
               PROVE  DoneOrWarned(FromEnd(Order, j))'
    OBVIOUS
  <2>1. CASE j = m
    <3>1. FromEnd(Order, j) = step BY <1>1, <2>1
    <3> QED BY <3>1
  <2>2. CASE j # m
    <3>1. j \in (m + 1)..18 BY <2>2
    <3>2. DoneOrWarned(FromEnd(Order, j)) BY <1>1, <3>1 DEF DoneBefore
    <3>3. FromEnd(Order, j) = "containers" => Head(cmd.todo) # "containers"
      BY <1>1, <2>2, OrderPlaces
    <3> QED BY <3>2, <3>3, StaysDoneIs
  <2> QED BY <2>1, <2>2
<1>5. cmd'.whole /\ m - 1 >= 4 => parts'["tencent"] = "whole"
  <2> SUFFICES ASSUME cmd.whole, m - 1 >= 4 PROVE parts'["tencent"] = "whole" BY <1>2
  <2>1. step # "tencent" BY <1>1, OrderPlaces
  <2> QED BY <1>1, <2>1 DEF DoneBefore
<1>6. DoneBefore(chosen, m - 1)'
  <2>1. (m - 1) + 1 = m OBVIOUS
  <2> QED BY <1>4, <1>5, <2>1 DEF DoneBefore
<1>7. {cmd'.warned, cmd'.whole, cmd'.purge} \subseteq BOOLEAN BY <1>2 DEF RemovalOk, Proceeds
<1> QED BY <1>1, <1>3, <1>6, <1>7 DEF RemovalOk

LEMMA Proceeding ==
    ASSUME OpOk(cmd), RemovalOk, NEW warned \in BOOLEAN, Next1(warned)
    PROVE  Proceeds /\ cmd'.warned = (cmd.warned \/ warned)
<1>1. DOMAIN cmd = DOMAIN Idle BY DEF OpOk
<1>2. {"pc", "op", "todo", "whole", "purge", "warned", "docker"} \subseteq DOMAIN Idle BY DEF Idle
<1>3. cmd.warned \in BOOLEAN BY DEF RemovalOk
<1> DEFINE next == Stepped
<1>4. /\ DOMAIN next = DOMAIN cmd /\ next.pc = cmd.pc /\ next.op = cmd.op /\ next.todo = Tail(cmd.todo)
      /\ next.whole = cmd.whole /\ next.purge = cmd.purge /\ next.warned = cmd.warned
      /\ next.docker = cmd.docker
  BY <1>1, <1>2 DEF Stepped
<1>5. cmd' = [next EXCEPT !.warned = next.warned \/ warned] BY DEF Next1
<1> HIDE DEF next
<1>6. /\ DOMAIN cmd' = DOMAIN next /\ cmd'.pc = next.pc /\ cmd'.op = next.op /\ cmd'.todo = next.todo
      /\ cmd'.whole = next.whole /\ cmd'.purge = next.purge /\ cmd'.docker = next.docker
  BY <1>1, <1>2, <1>4, <1>5
<1>7. cmd'.warned = (next.warned \/ warned) BY <1>1, <1>2, <1>4, <1>5
<1> QED BY <1>3, <1>4, <1>6, <1>7 DEF Proceeds

LEMMA ProceedingDocker ==
    ASSUME OpOk(cmd), RemovalOk, Head(cmd.todo) = "containers", NEW docker,
           cmd' = [Stepped EXCEPT !.docker = docker]
    PROVE  Proceeds /\ cmd'.docker = docker /\ cmd'.warned = cmd.warned
<1>1. DOMAIN cmd = DOMAIN Idle BY DEF OpOk
<1>2. {"pc", "op", "todo", "whole", "purge", "warned", "docker"} \subseteq DOMAIN Idle BY DEF Idle
<1>3. cmd.warned \in BOOLEAN BY DEF RemovalOk
<1> DEFINE next == Stepped
<1>4. /\ DOMAIN next = DOMAIN cmd /\ next.pc = cmd.pc /\ next.op = cmd.op /\ next.todo = Tail(cmd.todo)
      /\ next.whole = cmd.whole /\ next.purge = cmd.purge /\ next.warned = cmd.warned
  BY <1>1, <1>2 DEF Stepped
<1>5. cmd' = [next EXCEPT !.docker = docker] OBVIOUS
<1> HIDE DEF next
<1>6. /\ DOMAIN cmd' = DOMAIN next /\ cmd'.pc = next.pc /\ cmd'.op = next.op /\ cmd'.todo = next.todo
      /\ cmd'.whole = next.whole /\ cmd'.purge = next.purge /\ cmd'.warned = next.warned
      /\ cmd'.docker = docker
  BY <1>1, <1>2, <1>4, <1>5
<1> QED BY <1>3, <1>4, <1>6 DEF Proceeds

(* A removal that goes on or ends keeps the executable, or has removed it. *)
LEMMA RemovalKeeps ==
    ASSUME HostInvariant, cmd.pc = "remove", DOMAIN cmd' = DOMAIN cmd, cmd'.op = cmd.op,
           cmd'.pc \in {"remove", "ok", "failed"}, cmd'.pc = "remove" => RemovalOk',
           cmd'.pc = "ok" => UninstallComplete',
           binary' \in {binary, NoBinary}, backups' \subseteq backups,
           binary' # NoBinary => backups' = backups
    PROVE  HostInvariant'
<1>1. OpOk(cmd) /\ BinaryOk(cmd, binary, backups) BY DEF HostInvariant
<1>2. cmd.op = "uninstall" BY <1>1 DEF OpOk
<1>3. OpOk(cmd)' BY <1>1, <1>2 DEF OpOk
<1>4. BinaryOk(cmd, binary, backups)' BY <1>1, <1>2 DEF BinaryOk
<1>5. UpdateOk(cmd, binary, backups)' BY DEF UpdateOk
<1>6. UninstallComplete' BY DEF UninstallComplete, At
<1> QED BY <1>3, <1>4, <1>5, <1>6 DEF HostInvariant

LEMMA RemovalGoesOn ==
    ASSUME HostInvariant, cmd.pc = "remove", cmd.todo # <<>>, Proceeds, StaysDone,
           NEW step, step = Head(cmd.todo), DoneOrWarned(step)',
           step # "tencent" => parts'["tencent"] = parts["tencent"],
           binary' \in {binary, NoBinary}, backups' \subseteq backups,
           binary' # NoBinary => backups' = backups
    PROVE  HostInvariant'
<1>1. RemovalOk BY DEF HostInvariant
<1>2. PICK chosen \in SUBSET RemovalSteps, m \in 1..18 :
         ChosenOk(chosen) /\ NextIs(chosen, m, step)
  BY <1>1, RemovalHead
<1>3. RemovalOk' BY <1>1, <1>2, RemovalGoes
<1>4. DOMAIN cmd' = DOMAIN cmd /\ cmd'.op = cmd.op /\ cmd'.pc = "remove" BY DEF Proceeds
<1> QED BY <1>3, <1>4, RemovalKeeps

LEMMA Removed ==
    ASSUME HostInvariant, NEW step, Removing(step), NEW xs, NEW keys, Remove(xs, keys),
           binary = NoBinary => binary' = NoBinary, backups' \subseteq backups
    PROVE  /\ cmd.pc = "remove" /\ cmd.todo # <<>> /\ step = Head(cmd.todo)
           /\ OpOk(cmd) /\ RemovalOk /\ Proceeds /\ StaysDone
           /\ \A x \in Parts : parts'[x] = IF x \in xs THEN "gone" ELSE parts[x]
           /\ \A s \in Stores : stores'[s] = IF s \in keys THEN None ELSE stores[s]
<1>1. cmd.pc = "remove" /\ cmd.todo # <<>> /\ step = Head(cmd.todo) BY DEF Removing, At, Step
<1>2. OpOk(cmd) /\ RemovalOk BY <1>1 DEF HostInvariant
<1>3. Next1(FALSE) BY DEF Remove
<1>4. Proceeds /\ cmd'.warned = (cmd.warned \/ FALSE) BY <1>2, <1>3, Proceeding
<1>5. \A x \in Parts : parts'[x] = IF x \in xs THEN "gone" ELSE parts[x] BY DEF Remove
<1>6. \A s \in Stores : stores'[s] = IF s \in keys THEN None ELSE stores[s] BY DEF Remove
<1>7. launchers' = launchers /\ resolved' = resolved BY DEF Remove, others
<1>8. StaysDone BY <1>4, <1>5, <1>6, <1>7 DEF StaysDone
<1> QED BY <1>1, <1>2, <1>4, <1>5, <1>6, <1>8

PlainParts == Parts \ {"containers", "runtime", "tencent"}

LEMMA RemovedPart ==
    ASSUME HostInvariant, NEW x \in PlainParts, Removing(x), NEW keys, Remove({x}, keys),
           UNCHANGED <<binary, backups>>
    PROVE  HostInvariant'
<1>1. /\ cmd.pc = "remove" /\ cmd.todo # <<>> /\ x = Head(cmd.todo) /\ Proceeds /\ StaysDone
      /\ \A y \in Parts : parts'[y] = IF y \in {x} THEN "gone" ELSE parts[y]
  BY Removed
<1>2. x \in Parts /\ x \notin {"key", "tencent", "runtime", "executable", "backups", "permissions", "containers"}
  BY DEF PlainParts, Parts, Listable, Receipts
<1>3. "tencent" \in Parts BY DEF Parts, Listable
<1>4. Done(x)' BY <1>1, <1>2 DEF Done
<1>5. parts'["tencent"] = parts["tencent"] BY <1>1, <1>2, <1>3
<1> QED BY <1>1, <1>4, <1>5, RemovalGoesOn DEF DoneOrWarned

LEMMA UninstallSteps ==
    ASSUME HostInvariant,
           \/ RemoveCodexHooks \/ RemoveGitignoreRules \/ RemoveDSHProfilePatch
           \/ RemoveDSHProviderKey \/ RemoveTencent \/ PurgeManagedRuntime \/ RemoveGlobal \/ RemoveResource
           \/ RemoveExecutable \/ RemoveBaronBackups \/ RemoveLaunchers \/ RemoveFails \/ EndUninstall
    PROVE  HostInvariant'
<1>1. {"containers", "runtime", "tencent"} \subseteq Parts /\ "dsh" \in Stores /\ "tencent" \in Stores
      /\ "strix" \in Stores
  BY DEF Parts, Listable, Stores
<1>2. CASE RemoveCodexHooks
  <2>1. "hooks" \in PlainParts BY DEF PlainParts, Parts
  <2> QED BY <1>2, <2>1, RemovedPart DEF RemoveCodexHooks, Kept
<1>3. CASE RemoveGitignoreRules
  <2>1. "gitignore" \in PlainParts BY DEF PlainParts, Parts
  <2> QED BY <1>3, <2>1, RemovedPart DEF RemoveGitignoreRules, Kept
<1>4. CASE RemoveDSHProfilePatch
  <2>1. "patch" \in PlainParts BY DEF PlainParts, Parts
  <2> QED BY <1>4, <2>1, RemovedPart DEF RemoveDSHProfilePatch, Kept
<1>5. CASE RemoveGlobal
  <2>1. "global" \in PlainParts BY DEF PlainParts, Parts
  <2> QED BY <1>5, <2>1, RemovedPart DEF RemoveGlobal
<1>6. CASE RemoveDSHProviderKey
  <2>1. Removing("key") /\ Remove({}, {"dsh"}) /\ UNCHANGED <<binary, backups>>
    BY <1>6 DEF RemoveDSHProviderKey, Kept
  <2>2. /\ cmd.pc = "remove" /\ cmd.todo # <<>> /\ "key" = Head(cmd.todo) /\ Proceeds /\ StaysDone
        /\ \A y \in Parts : parts'[y] = IF y \in {} THEN "gone" ELSE parts[y]
        /\ \A s \in Stores : stores'[s] = IF s \in {"dsh"} THEN None ELSE stores[s]
    BY <2>1, Removed
  <2>3. "key" \notin Parts BY DEF Parts, Listable, Receipts
  <2>4. Done("key")' BY <1>1, <2>2, <2>3 DEF Done
  <2> QED BY <1>1, <2>1, <2>2, <2>4, RemovalGoesOn DEF DoneOrWarned
<1>7. CASE RemoveTencent
  <2>1. /\ cmd.pc = "remove" /\ cmd.todo # <<>> /\ "containers" = Head(cmd.todo)
        /\ UNCHANGED <<stores, launchers, binary, backups, resolved>>
    BY <1>7 DEF RemoveTencent, Removing, At, Step, others
  <2>2. OpOk(cmd) /\ RemovalOk BY <2>1 DEF HostInvariant
  <2>3. PICK docker, left :
           /\ left \in Leaves(docker) /\ cmd' = [Stepped EXCEPT !.docker = docker]
           /\ parts' = [x \in Parts |-> IF x = "containers" THEN left ELSE parts[x]]
    BY <1>7 DEF RemoveTencent
  <2>4. Proceeds /\ cmd'.docker = docker /\ cmd'.warned = cmd.warned BY <2>1, <2>2, <2>3, ProceedingDocker
  <2>5. parts["containers"] = "gone" => left = "gone" BY <2>3 DEF Leaves
  <2>6. /\ \A x \in Parts : parts[x] = "gone" => parts'[x] = "gone"
        /\ parts'["tencent"] = parts["tencent"]
    BY <1>1, <2>3, <2>5
  <2>7. StaysDone BY <2>1, <2>4, <2>6 DEF StaysDone
  <2>8. PICK chosen \in SUBSET RemovalSteps, m \in 1..18 : NextIs(chosen, m, "containers")
    BY <2>1, <2>2, RemovalHead
  <2>9. m >= 4 BY <2>8, OrderIs DEF NextIs
  <2>10. cmd.whole => parts["tencent"] = "whole" BY <2>8, <2>9 DEF NextIs, DoneBefore
  <2>11. ASSUME cmd'.whole, Reaches(cmd.docker)' PROVE parts'["containers"] = "gone"
    <3>1. Reaches(docker) BY <2>1, <2>4, <2>11 DEF Reaches
    <3>2. left = "gone" BY <2>3, <2>4, <2>10, <2>11, <3>1 DEF Leaves, Proceeds
    <3> QED BY <1>1, <2>3, <3>2
  <2>12. Done("containers")' BY <2>11 DEF Done
  <2> QED BY <2>1, <2>4, <2>6, <2>7, <2>12, RemovalGoesOn DEF DoneOrWarned
<1>8. CASE PurgeManagedRuntime
  <2>1. Removing("runtime") /\ Remove({"runtime"}, {"strix"}) /\ UNCHANGED <<binary, backups>>
    BY <1>8 DEF PurgeManagedRuntime, Kept
  <2>2. /\ cmd.pc = "remove" /\ cmd.todo # <<>> /\ "runtime" = Head(cmd.todo) /\ Proceeds /\ StaysDone
        /\ \A y \in Parts : parts'[y] = IF y \in {"runtime"} THEN "gone" ELSE parts[y]
        /\ \A s \in Stores : stores'[s] = IF s \in {"strix"} THEN None ELSE stores[s]
    BY <2>1, Removed
  <2>3. Done("runtime")' BY <1>1, <2>2 DEF Done
  <2>4. parts'["tencent"] = parts["tencent"] BY <1>1, <2>2
  <2> QED BY <2>1, <2>2, <2>3, <2>4, RemovalGoesOn DEF DoneOrWarned
<1>9. CASE RemoveResource
  <2>1. PICK x \in Receipts \cup {"dsh", "baseline", "codex", "project", "tencent"} :
           Removing(x) /\ Remove({x}, {x} \cap {"tencent"}) /\ UNCHANGED <<binary, backups>>
    BY <1>9 DEF RemoveResource, Kept
  <2>2. CASE x # "tencent"
    <3>1. x \in PlainParts BY <2>1, <2>2 DEF PlainParts, Parts, Listable, Receipts
    <3> QED BY <2>1, <3>1, RemovedPart
  <2>3. CASE x = "tencent"
    <3>1. /\ cmd.pc = "remove" /\ cmd.todo # <<>> /\ x = Head(cmd.todo) /\ Proceeds /\ StaysDone
          /\ \A y \in Parts : parts'[y] = IF y \in {x} THEN "gone" ELSE parts[y]
          /\ \A s \in Stores : stores'[s] = IF s \in {x} \cap {"tencent"} THEN None ELSE stores[s]
      BY <2>1, Removed
    <3>2. Done(x)' BY <1>1, <2>3, <3>1 DEF Done
    <3> QED BY <2>1, <2>3, <3>1, <3>2, RemovalGoesOn DEF DoneOrWarned
  <2> QED BY <2>2, <2>3
<1>10. CASE RemoveExecutable
  <2>1. Removing("executable") /\ Remove({}, {}) /\ binary' = NoBinary /\ backups' = backups
    BY <1>10 DEF RemoveExecutable
  <2>2. /\ cmd.pc = "remove" /\ cmd.todo # <<>> /\ "executable" = Head(cmd.todo) /\ Proceeds /\ StaysDone
        /\ \A y \in Parts : parts'[y] = IF y \in {} THEN "gone" ELSE parts[y]
    BY <2>1, Removed
  <2>3. "executable" \notin Parts BY DEF Parts, Listable, Receipts
  <2>4. Done("executable")' BY <2>1, <2>3 DEF Done
  <2>5. parts'["tencent"] = parts["tencent"] BY <1>1, <2>2
  <2> QED BY <2>1, <2>2, <2>4, <2>5, RemovalGoesOn DEF DoneOrWarned
(* The backups go after the executable. *)
<1>11. CASE RemoveBaronBackups
  <2>1. Removing("backups") /\ Remove({}, {}) /\ backups' = {} /\ binary' = binary
    BY <1>11 DEF RemoveBaronBackups
  <2>2. /\ cmd.pc = "remove" /\ cmd.todo # <<>> /\ "backups" = Head(cmd.todo) /\ RemovalOk
        /\ Proceeds /\ StaysDone
        /\ \A y \in Parts : parts'[y] = IF y \in {} THEN "gone" ELSE parts[y]
    BY <2>1, Removed
  <2>3. PICK chosen \in SUBSET RemovalSteps, m \in 1..18 : ChosenOk(chosen) /\ NextIs(chosen, m, "backups")
    BY <2>2, RemovalHead
  <2>4. m = 2 BY <2>3, OrderPlaces DEF NextIs
  <2>5. DoneOrWarned("executable")
    <3>1. 3 \in (2 + 1)..18 /\ FromEnd(Order, 3) = "executable" /\ "executable" \in chosen
      BY <2>3, OrderIs DEF ChosenOk, FixedSteps
    <3>2. DoneBefore(chosen, 2) BY <2>3, <2>4 DEF NextIs
    <3> QED BY <3>1, <3>2 DEF DoneBefore
  <2>6. binary = NoBinary BY <2>5 DEF DoneOrWarned, Done, Lenient
  <2>7. "backups" \notin Parts BY DEF Parts, Listable, Receipts
  <2>8. Done("backups")' BY <2>1, <2>7 DEF Done
  <2>9. parts'["tencent"] = parts["tencent"] BY <1>1, <2>2
  <2> QED BY <2>1, <2>2, <2>6, <2>8, <2>9, RemovalGoesOn DEF DoneOrWarned
<1>12. CASE RemoveLaunchers
  <2> DEFINE foreign == \E l \in Launchers : Foreign(l)
  <2>1. /\ cmd.pc = "remove" /\ cmd.todo # <<>> /\ "permissions" = Head(cmd.todo) /\ Next1(foreign)
        /\ launchers' = [l \in Launchers |->
              IF Foreign(l) \/ (l = "codex" /\ Foreign("dsh")) THEN launchers[l] ELSE "none"]
        /\ parts' = parts /\ stores' = stores /\ binary' = binary /\ backups' = backups
        /\ resolved' = resolved
    BY <1>12 DEF RemoveLaunchers, Removing, At, Step, others
  <2>2. OpOk(cmd) /\ RemovalOk BY <2>1 DEF HostInvariant
  <2>3. foreign \in BOOLEAN OBVIOUS
  <2>4. \A l \in Launchers : ~foreign => launchers'[l] = "none"
    <3>1. "dsh" \in Launchers BY DEF Launchers
    <3> QED BY <2>1, <3>1
  <2>5. \A l \in Launchers : launchers'[l] \in {launchers[l], "none"} BY <2>1
  <2> HIDE DEF foreign
  <2>6. Proceeds /\ cmd'.warned = (cmd.warned \/ foreign) BY <2>1, <2>2, <2>3, Proceeding
  <2>7. StaysDone BY <2>1, <2>5, <2>6 DEF StaysDone
  <2>8. "permissions" \notin Parts BY DEF Parts, Listable, Receipts
  <2>9. cmd'.warned \/ \A l \in Launchers : launchers'[l] # "baron" BY <2>4, <2>6
  <2>10. Done("permissions")' BY <2>8, <2>9 DEF Done
  <2> QED BY <2>1, <2>6, <2>7, <2>10, RemovalGoesOn DEF DoneOrWarned
<1>13. CASE RemoveFails
  <2> PICK step : step = Head(cmd.todo) OBVIOUS
  <2>1. /\ cmd.pc = "remove" /\ cmd.todo # <<>> /\ step = Head(cmd.todo) /\ binary' = binary /\ backups' = backups
        /\ stores' = stores /\ launchers' = launchers /\ resolved' = resolved
        /\ parts' \in {parts} \cup {[x \in Parts |-> IF x = step THEN "partial" ELSE parts[x]]}
        /\ parts' # parts =>
              step \in {"dsh", "codex", "project", "tencent", "runtime", "containers"} /\ parts[step] = "whole"
        /\ IF step \in {"containers", "runtime", "permissions"} THEN Next1(TRUE) ELSE Goto("failed")
    BY <1>13 DEF RemoveFails, At, others
  <2>2. OpOk(cmd) /\ RemovalOk BY <2>1 DEF HostInvariant
  <2>3. CASE step \in Lenient
    <3>1. Next1(TRUE) BY <2>1, <2>3 DEF Lenient
    <3>2. Proceeds /\ cmd'.warned = (cmd.warned \/ TRUE) BY <2>2, <3>1, Proceeding
    <3>3. cmd'.warned BY <3>2
    <3>4. DoneOrWarned(step)' BY <2>3, <3>3 DEF DoneOrWarned, Lenient
    <3>5. \A x \in Parts : parts[x] = "gone" => parts'[x] = "gone"
      BY <2>1
    <3>6. StaysDone BY <2>1, <3>2, <3>5 DEF StaysDone
    <3>7. parts'["tencent"] = parts["tencent"] BY <1>1, <2>1, <2>3 DEF Lenient
    <3> QED BY <2>1, <3>2, <3>4, <3>6, <3>7, RemovalGoesOn
  <2>4. CASE step \notin Lenient
    <3>1. Goto("failed") BY <2>1, <2>4 DEF Lenient
    <3>2. "op" \in DOMAIN Idle \ {"pc"} BY DEF Idle
    <3>3. DOMAIN cmd' = DOMAIN cmd /\ cmd'.op = cmd.op /\ cmd'.pc = "failed" BY <2>2, <3>1, <3>2, GotoIs
    <3> QED BY <2>1, <3>3, RemovalKeeps
  <2> QED BY <2>3, <2>4
<1>14. CASE EndUninstall
  <2>1. /\ cmd.pc = "remove" /\ cmd.todo = <<>> /\ Goto(IF cmd.warned THEN "failed" ELSE "ok")
        /\ parts' = parts /\ stores' = stores /\ launchers' = launchers /\ binary' = binary
        /\ backups' = backups /\ resolved' = resolved
    BY <1>14 DEF EndUninstall, At, host, others
  <2>2. OpOk(cmd) /\ RemovalOk BY <2>1 DEF HostInvariant
  <2>3. {"op", "warned", "whole", "purge", "docker"} \subseteq DOMAIN Idle \ {"pc"} BY DEF Idle
  <2>4. /\ DOMAIN cmd' = DOMAIN cmd /\ cmd'.op = cmd.op /\ cmd'.whole = cmd.whole /\ cmd'.purge = cmd.purge
        /\ cmd'.docker = cmd.docker
        /\ cmd'.pc = IF cmd.warned THEN "failed" ELSE "ok"
    BY <2>1, <2>2, <2>3, GotoIs
  <2>5. ASSUME cmd'.pc = "ok" PROVE UninstallComplete'
    <3>1. ~cmd.warned BY <2>4, <2>5
    <3>2. PICK chosen \in SUBSET RemovalSteps : ChosenOk(chosen) /\ \A s \in chosen : DoneOrWarned(s)
      BY <2>1, <2>2, RemovalOver
    <3>3. \A s \in chosen : Done(s) BY <3>1, <3>2 DEF DoneOrWarned
    <3>4. \A s \in FixedSteps : Done(s) BY <3>2, <3>3 DEF ChosenOk
    <3>5. \A x \in FixedParts : parts[x] = "gone"
      <4>1. FixedParts \subseteq (Parts \ {"containers"}) \cap FixedSteps
        BY DEF FixedParts, FixedSteps, Parts, Listable, Receipts
      <4> QED BY <3>4, <4>1 DEF Done
    <3>6. Done("key") /\ Done("executable") /\ Done("backups") /\ Done("permissions")
      BY <3>4 DEF FixedSteps
    <3>7. /\ stores["dsh"] = None /\ binary = NoBinary /\ backups = {}
          /\ \A l \in Launchers : launchers[l] # "baron"
      BY <3>1, <3>6 DEF Done
    <3>8. ASSUME cmd.whole
          PROVE  /\ \A x \in Parts : \/ parts[x] = "gone"
                                     \/ x = "runtime" /\ ~cmd.purge
                                     \/ x = "containers" /\ ~Reaches(cmd.docker)
                 /\ stores["tencent"] = None /\ (cmd.purge => stores["strix"] = None)
      <4>1. \A s \in RemovalSteps : s \in chosen \/ (s = "runtime" /\ ~cmd.purge)
        BY <3>2, <3>8 DEF ChosenOk
      <4>2. \A s \in RemovalSteps : Done(s) \/ (s = "runtime" /\ ~cmd.purge) BY <3>3, <4>1
      <4>3. Parts \subseteq RemovalSteps BY DEF RemovalSteps
      <4>4. ASSUME NEW x \in Parts
            PROVE  \/ parts[x] = "gone"
                   \/ x = "runtime" /\ ~cmd.purge
                   \/ x = "containers" /\ ~Reaches(cmd.docker)
        <5>1. CASE x = "containers"
          <6>1. Done("containers") BY <4>2, <4>3, <5>1
          <6> QED BY <3>8, <5>1, <6>1 DEF Done
        <5>2. CASE x # "containers" BY <4>2, <4>3, <5>2 DEF Done
        <5> QED BY <5>1, <5>2
      <4>5. Done("tencent") /\ (cmd.purge => Done("runtime")) BY <1>1, <4>2, <4>3
      <4> QED BY <4>4, <4>5 DEF Done
    <3>10. Reaches(cmd.docker)' <=> Reaches(cmd.docker) BY <2>1, <2>4 DEF Reaches
    <3>11. /\ \A x \in FixedParts : parts'[x] = "gone"
           /\ stores'["dsh"] = None /\ binary' = NoBinary /\ backups' = {}
           /\ \A l \in Launchers : launchers'[l] # "baron"
      BY <2>1, <3>5, <3>7
    <3>12. ASSUME cmd'.whole
           PROVE  /\ \A x \in Parts : \/ parts'[x] = "gone"
                                      \/ x = "runtime" /\ ~cmd'.purge
                                      \/ x = "containers" /\ ~Reaches(cmd.docker)'
                  /\ stores'["tencent"] = None /\ (cmd'.purge => stores'["strix"] = None)
      BY <2>1, <2>4, <3>8, <3>10, <3>12
    <3> QED BY <3>11, <3>12 DEF UninstallComplete
  <2>6. cmd'.pc \in {"ok", "failed"} BY <2>4
  <2> QED BY <2>1, <2>4, <2>5, <2>6, RemovalKeeps
<1> QED BY <1>2, <1>3, <1>4, <1>5, <1>6, <1>7, <1>8, <1>9, <1>10, <1>11, <1>12, <1>13, <1>14

LEMMA UninstallBegins == HostInvariant /\ BeginUninstall => HostInvariant'
<1> SUFFICES ASSUME HostInvariant, BeginUninstall PROVE HostInvariant'
  OBVIOUS
<1>1. PICK purge, here \in BOOLEAN :
         Begin("uninstall", [Idle EXCEPT
            !.pc = "remove", !.purge = purge, !.whole = Complete,
            !.again = Complete \/ (cmd.op = "uninstall" /\ cmd.again),
            !.todo = Chosen(Order, {step \in RemovalSteps : Covers(step, purge, here)})])
  BY DEF BeginUninstall
<1>2. PICK chosen : chosen = {step \in RemovalSteps : Covers(step, purge, here)} OBVIOUS
<1>3. PICK whole, again : whole = Complete /\ again = (Complete \/ (cmd.op = "uninstall" /\ cmd.again))
  OBVIOUS
<1>4. whole \in BOOLEAN BY <1>3 DEF Complete
<1>5. chosen \in SUBSET RemovalSteps BY <1>2
<1>6. \A step \in RemovalSteps : step \in chosen <=> Covers(step, purge, here) BY <1>2
<1>7. FixedSteps \subseteq chosen
  <2>1. ASSUME NEW step \in FixedSteps PROVE step \in chosen
    <3>1. /\ step \in RemovalSteps /\ step \notin {"gitignore", "project"}
          /\ step \notin {"containers", "tencent"} /\ step \notin Receipts /\ step # "runtime"
      BY <2>1 DEF RemovalSteps, Receipts, FixedSteps, FixedParts, Parts
    <3>2. Covers(step, purge, here) BY <3>1 DEF Covers
    <3> QED BY <1>6, <3>1, <3>2
  <2> QED BY <2>1
<1>8. ASSUME whole PROVE \A step \in RemovalSteps : step \in chosen \/ (step = "runtime" /\ ~purge)
  <2> SUFFICES ASSUME NEW step \in RemovalSteps, ~(step = "runtime" /\ ~purge)
               PROVE  Covers(step, purge, here)
    BY <1>6
  <2>1. (\A x \in Parts : parts[x] = "whole") /\ listed = Listable BY <1>3, <1>8 DEF Complete
  <2>2. \A x \in Listable : Known(x)
    <3>1. "global" \in Parts BY DEF Parts
    <3> QED BY <2>1, <3>1 DEF Known
  <2>3. {"project", "tencent", "runtime"} \subseteq Listable /\ Receipts \subseteq Listable BY DEF Listable
  <2>4. Managed(here)
    <3>1. "project" \in Parts BY DEF Parts, Listable
    <3> QED BY <2>1, <2>2, <2>3, <3>1 DEF Managed
  <2>5. /\ Receipts \cap {"gitignore", "project", "containers", "tencent", "runtime"} = {}
    BY DEF Receipts
  <2>6. CASE step \in {"gitignore", "project"} BY <2>4, <2>5, <2>6 DEF Covers
  <2>7. CASE step \in {"containers", "tencent"} BY <2>2, <2>3, <2>7 DEF Covers
  <2>8. CASE step \in Receipts BY <2>2, <2>3, <2>5, <2>8 DEF Covers
  <2>9. CASE step = "runtime" BY <2>2, <2>3, <2>5, <2>9 DEF Covers
  <2>10. CASE step \notin {"gitignore", "project", "containers", "tencent", "runtime"} \cup Receipts
    BY <2>10 DEF Covers
  <2> QED BY <2>6, <2>7, <2>8, <2>9, <2>10
<1>9. Chosen(Order, chosen) = Left(Order, chosen, 18) BY OrderIs DEF Chosen, Left
<1>10. PICK todo : todo = Left(Order, chosen, 18) OBVIOUS
<1> DEFINE record == [Idle EXCEPT !.pc = "remove", !.purge = purge, !.whole = whole, !.again = again,
                                  !.todo = todo]
<1>11. /\ DOMAIN record = DOMAIN Idle /\ record.pc = "remove" /\ record.purge = purge
       /\ record.whole = whole /\ record.todo = todo /\ record.warned = FALSE
  BY DEF Idle
<1>12. Begin("uninstall", record)
  BY <1>1, <1>2, <1>3, <1>9, <1>10
<1> HIDE DEF record
<1>13. cmd' = [record EXCEPT !.op = "uninstall", !.stores = stores] BY <1>12 DEF Begin
<1>14. /\ DOMAIN cmd' = DOMAIN Idle /\ cmd'.op = "uninstall" /\ cmd'.pc = "remove" /\ cmd'.purge = purge
       /\ cmd'.whole = whole /\ cmd'.todo = todo /\ cmd'.warned = FALSE
  <2>1. {"op", "pc", "stores", "purge", "whole", "todo", "warned"} \subseteq DOMAIN Idle BY DEF Idle
  <2> QED BY <1>11, <1>13, <2>1
<1>15. /\ Ended /\ BinaryOk(cmd, binary, backups) /\ parts' = parts /\ binary' = binary
       /\ backups' = backups /\ binary # NoBinary
  BY <1>12 DEF Begin, host, HostInvariant
<1>16. OpOk(cmd)' BY <1>14 DEF OpOk
<1>17. BinaryOk(cmd, binary, backups)'
  <2>1. ~binary.checked => Kept1(backups) BY <1>15 DEF BinaryOk, Ended
  <2> QED BY <1>14, <1>15, <2>1 DEF BinaryOk
<1>18. UpdateOk(cmd, binary, backups)' BY <1>14 DEF UpdateOk
<1>19. RemovalOk'
  <2>1. ChosenOk(chosen)' BY <1>4, <1>7, <1>8, <1>14 DEF ChosenOk
  <2>2. DoneBefore(chosen, 18)'
    <3>1. \A j \in (18 + 1)..18 : FALSE OBVIOUS
    <3>2. whole => parts["tencent"] = "whole" BY <1>3 DEF Complete, Parts, Listable
    <3> QED BY <1>14, <1>15, <3>1, <3>2 DEF DoneBefore
  <2>3. {cmd'.warned, cmd'.whole, cmd'.purge} \subseteq BOOLEAN BY <1>1, <1>4, <1>14
  <2>4. cmd'.todo = Left(Order, chosen, 18) BY <1>10, <1>14
  <2>5. 18 \in 0..18 OBVIOUS
  <2> QED BY <1>5, <2>1, <2>2, <2>3, <2>4, <2>5 DEF RemovalOk
<1>20. UninstallComplete' BY <1>14 DEF UninstallComplete, At
<1> QED BY <1>16, <1>17, <1>18, <1>19, <1>20 DEF HostInvariant

(* A killed command leaves the executables as they are. *)
LEMMA KillKeeps == HostInvariant /\ Kill => HostInvariant'
<1> SUFFICES ASSUME HostInvariant, Kill PROVE HostInvariant'
  OBVIOUS
<1>1. OpOk(cmd) /\ BinaryOk(cmd, binary, backups) /\ UpdateOk(cmd, binary, backups) BY DEF HostInvariant
<1>2. DOMAIN cmd' = DOMAIN Idle /\ cmd'.pc = "dead" /\ cmd'.op = cmd.op BY DEF Kill, Idle
<1>3. binary' = binary /\ backups' = backups BY DEF Kill
<1>4. OpOk(cmd)' BY <1>2 DEF OpOk
<1>5. BinaryOk(cmd, binary, backups)' BY <1>1, <1>2, <1>3 DEF BinaryOk, UpdateOk
<1>6. UpdateOk(cmd, binary, backups)' BY <1>2 DEF UpdateOk
<1>7. UninstallComplete' BY <1>2 DEF UninstallComplete, At
<1> QED BY <1>2, <1>4, <1>5, <1>6, <1>7 DEF HostInvariant

(* What the invariant says does not depend on the provider, nor on the bounds. *)
LEMMA ElsewhereKeeps ==
    ASSUME HostInvariant, UNCHANGED <<parts, stores, launchers, binary, backups, resolved, cmd>>
    PROVE  HostInvariant'
<1>1. \A step : Done(step)' <=> Done(step) BY DEF Done, Reaches
<1>2. \A step : DoneOrWarned(step)' <=> DoneOrWarned(step) BY <1>1 DEF DoneOrWarned
<1>3. \A chosen, n : DoneBefore(chosen, n)' <=> DoneBefore(chosen, n) BY <1>2 DEF DoneBefore
<1>4. \A chosen : ChosenOk(chosen)' <=> ChosenOk(chosen) BY DEF ChosenOk
<1>5. RemovalOk' <=> RemovalOk BY <1>3, <1>4 DEF RemovalOk
<1>6. UninstallComplete' <=> UninstallComplete BY DEF UninstallComplete, At, Reaches
<1>7. OpOk(cmd)' <=> OpOk(cmd) OBVIOUS
<1> QED BY <1>5, <1>6, <1>7 DEF HostInvariant

LEMMA HostNext == HostInvariant /\ [Next]_vars => HostInvariant'
<1> SUFFICES ASSUME HostInvariant, [Next]_vars PROVE HostInvariant'
  OBVIOUS
<1>1. CASE UNCHANGED vars BY <1>1, ElsewhereKeeps DEF vars
<1>2. CASE \E k \in valid : Revoke(k) BY <1>2, ElsewhereKeeps DEF Revoke, host
<1>3. CASE BeginUpdate \/ BeginRotate \/ BeginResolve \/ BeginBundle \/ BeginPermissions
  BY <1>3, BeginsAside
<1>4. CASE \/ Latest \/ CheckManifest \/ CheckSums \/ CheckLaunch
           \/ BackupBinary \/ ReplaceBinary \/ ValidateBinary \/ RestoreBinary
  BY <1>4, UpdateSteps
<1>5. CASE Stage \/ BackupKeys \/ Commit \/ UndoKey \/ EndUndo \/ Reload BY <1>5, RotationSteps
<1>6. CASE \/ ApplyRuntime \/ ResolveKey \/ InstallDSHAdapter \/ EnsureDSHProfilePatch
           \/ EnsureDSHBaseline \/ InstallCodexAdapter \/ MergeCodexHooks \/ WriteReceipt \/ SaveState
           \/ Healthy \/ Checkout \/ StartServices \/ WriteManifest \/ SetupProject \/ EndBundle
  BY <1>6, BundleSteps
<1>7. CASE RecordDirectory \/ EnableLauncher \/ DisableLauncher \/ EndPermissions
  BY <1>7, PermissionSteps
<1>8. CASE BeginUninstall BY <1>8, UninstallBegins
<1>9. CASE \/ RemoveCodexHooks \/ RemoveGitignoreRules \/ RemoveDSHProfilePatch
           \/ RemoveDSHProviderKey \/ RemoveTencent \/ PurgeManagedRuntime \/ RemoveGlobal \/ RemoveResource
           \/ RemoveExecutable \/ RemoveBaronBackups \/ RemoveLaunchers \/ RemoveFails \/ EndUninstall
  BY <1>9, UninstallSteps
<1>10. CASE Kill BY <1>10, KillKeeps
<1> QED BY <1>1, <1>2, <1>3, <1>4, <1>5, <1>6, <1>7, <1>8, <1>9, <1>10 DEF Next

THEOREM HostInvariantHolds == Spec => []HostInvariant
BY HostInit, HostNext, PTL DEF Spec

(* An executable that was not validated in its place is being validated, or    *)
(* the backup of one that was is there, for any updates, failures and kills;   *)
(* and only an uninstall leaves none (UpdateBinary of update.go).              *)
THEOREM BinaryRecoverableHolds == Spec => []BinaryRecoverable
<1>1. HostInvariant => BinaryRecoverable
  BY DEF HostInvariant, BinaryOk, UpdateOk, BinaryRecoverable, Kept1
<1> QED BY <1>1, HostInvariantHolds, PTL

(* Whatever removals failed or were refused on the way, an uninstall that      *)
(* reports success has left nothing at a fixed place; one that started from a  *)
(* complete installation has left no other part, but the runtime it did not    *)
(* purge and containers out of Docker's reach (Execute of uninstall.go).       *)
THEOREM UninstallCompleteHolds == Spec => []UninstallComplete
<1>1. HostInvariant => UninstallComplete BY DEF HostInvariant
<1> QED BY <1>1, HostInvariantHolds, PTL

(* Which steps change the executable. *)
LEMMA BinaryChanges ==
    Next => \/ binary' \in {binary, NoBinary} \/ ReplaceBinary \/ ValidateBinary \/ RestoreBinary
<1> SUFFICES ASSUME Next, binary' # binary, binary' # NoBinary
             PROVE  ReplaceBinary \/ ValidateBinary \/ RestoreBinary
  OBVIOUS
<1>1. ASSUME NEW op, NEW record, Begin(op, record) PROVE FALSE BY <1>1 DEF Begin, host
<1>2. ~ (BeginUpdate \/ BeginRotate \/ BeginResolve \/ BeginBundle \/ BeginPermissions \/ BeginUninstall)
  BY <1>1 DEF BeginUpdate, BeginRotate, BeginResolve, BeginBundle, BeginPermissions, BeginUninstall
<1>3. ~ (Latest \/ CheckManifest \/ CheckSums \/ CheckLaunch \/ BackupBinary)
  BY DEF Latest, CheckManifest, CheckSums, CheckLaunch, BackupBinary, Checked, host
<1>4. ~ (Stage \/ BackupKeys \/ Commit \/ UndoKey \/ EndUndo \/ Reload \/ \E k \in valid : Revoke(k))
  BY DEF Stage, BackupKeys, Commit, UndoKey, EndUndo, Reload, Revoke, host
<1>5. ASSUME NEW x, Put(x) PROVE FALSE BY <1>5 DEF Put
<1>6. ~ (\/ ApplyRuntime \/ InstallDSHAdapter \/ EnsureDSHProfilePatch \/ EnsureDSHBaseline
         \/ InstallCodexAdapter \/ MergeCodexHooks \/ WriteReceipt \/ StartServices \/ SetupProject)
  BY <1>5 DEF ApplyRuntime, InstallDSHAdapter, EnsureDSHProfilePatch, EnsureDSHBaseline,
              InstallCodexAdapter, MergeCodexHooks, WriteReceipt, StartServices, SetupProject
<1>7. ~ (ResolveKey \/ SaveState \/ Healthy \/ Checkout \/ WriteManifest \/ EndBundle)
  BY DEF ResolveKey, SaveState, Healthy, Checkout, WriteManifest, EndBundle, host
<1>8. ~ (RecordDirectory \/ EnableLauncher \/ DisableLauncher \/ EndPermissions)
  BY DEF RecordDirectory, EnableLauncher, DisableLauncher, EndPermissions, host
<1>9. ~ (\/ RemoveCodexHooks \/ RemoveGitignoreRules \/ RemoveDSHProfilePatch \/ RemoveDSHProviderKey
         \/ RemoveTencent \/ PurgeManagedRuntime \/ RemoveGlobal \/ RemoveResource)
  BY DEF RemoveCodexHooks, RemoveGitignoreRules, RemoveDSHProfilePatch, RemoveDSHProviderKey,
         RemoveTencent, PurgeManagedRuntime, RemoveGlobal, RemoveResource, Kept
<1>10. ~ (RemoveExecutable \/ RemoveBaronBackups \/ RemoveLaunchers \/ RemoveFails \/ EndUninstall \/ Kill)
  BY DEF RemoveExecutable, RemoveBaronBackups, RemoveLaunchers, RemoveFails, EndUninstall, Kill, host
<1> QED BY <1>2, <1>3, <1>4, <1>6, <1>7, <1>8, <1>9, <1>10 DEF Next

(* The executable only ever becomes a release whose manifest, sums and launch  *)
(* were checked, a newer one unless forced, or the backup of this very update  *)
(* (InstallLatest of release.go).                                              *)
THEOREM OnlyVerifiedUpgradesHolds == Spec => OnlyVerifiedUpgrades
<1> DEFINE Verified == binary'.release # binary.release /\ binary' # NoBinary /\ ~At("restore") =>
                          /\ Genuine(binary'.release) /\ binary'.release.launches
                          /\ binary'.release.version > binary.release.version \/ cmd.op = "install"
<1>1. HostInvariant /\ [Next]_vars => [Verified]_vars
  <2> SUFFICES ASSUME HostInvariant, Next, binary'.release # binary.release, binary' # NoBinary, ~At("restore")
               PROVE  /\ Genuine(binary'.release) /\ binary'.release.launches
                      /\ binary'.release.version > binary.release.version \/ cmd.op = "install"
    OBVIOUS
  <2>1. OpOk(cmd) /\ BinaryOk(cmd, binary, backups) /\ UpdateOk(cmd, binary, backups) BY DEF HostInvariant
  <2>2. CASE ReplaceBinary
    <3>1. cmd.pc = "replace" BY <2>2 DEF ReplaceBinary, At
    <3>2. binary' = [release |-> cmd.release, checked |-> FALSE] BY <2>2 DEF ReplaceBinary
    <3>3. binary'.release = cmd.release BY <3>2
    <3> QED BY <2>1, <3>1, <3>3 DEF UpdateOk
  <2>3. CASE ValidateBinary
    <3>1. cmd.pc = "validate" BY <2>3 DEF ValidateBinary, At
    <3>2. binary # NoBinary BY <2>1, <3>1 DEF OpOk, BinaryOk
    <3>3. DOMAIN binary = {"release", "checked"} BY <2>1, <3>2 DEF BinaryOk, IsBinary, NoBinary
    <3>4. binary' = [binary EXCEPT !.checked = TRUE] BY <2>3 DEF ValidateBinary
    <3> QED BY <3>3, <3>4
  <2>4. CASE RestoreBinary BY <2>4 DEF RestoreBinary
  <2> QED BY <2>2, <2>3, <2>4, BinaryChanges
<1> QED BY <1>1, HostInvariantHolds, PTL DEF Spec, OnlyVerifiedUpgrades

-------------------------------------------------------------------------------
(* The rotation of the key and the bundle, of which it is a part. *)
Elements(s) == {s[i] : i \in DOMAIN s}

LEMMA ElementsOf ==
    ASSUME NEW S, NEW s \in Seq(S)
    PROVE  /\ Elements(s) \subseteq S
           /\ s = <<>> <=> Elements(s) = {}
           /\ s # <<>> => /\ Head(s) \in S /\ Tail(s) \in Seq(S)
                          /\ Elements(s) = {Head(s)} \cup Elements(Tail(s))
           /\ \A a \in S : Append(s, a) \in Seq(S) /\ Elements(Append(s, a)) = Elements(s) \cup {a}
<1>1. DOMAIN s = 1..Len(s) /\ Len(s) \in Nat /\ \A i \in 1..Len(s) : s[i] \in S OBVIOUS
<1>2. Elements(s) \subseteq S BY <1>1 DEF Elements
<1>3. s = <<>> <=> Elements(s) = {}
  <2>1. CASE s = <<>>
    <3>1. DOMAIN s = {} BY <2>1
    <3> QED BY <2>1, <3>1 DEF Elements
  <2>2. CASE s # <<>>
    <3>1. 1 \in DOMAIN s BY <1>1, <2>2
    <3> QED BY <2>2, <3>1 DEF Elements
  <2> QED BY <2>1, <2>2
<1>4. ASSUME s # <<>>
      PROVE  /\ Head(s) \in S /\ Tail(s) \in Seq(S)
             /\ Elements(s) = {Head(s)} \cup Elements(Tail(s))
  <2>1. /\ Head(s) = s[1] /\ 1 \in 1..Len(s) /\ Tail(s) \in Seq(S) /\ Len(Tail(s)) = Len(s) - 1
        /\ DOMAIN Tail(s) = 1..(Len(s) - 1)
        /\ \A i \in 1..(Len(s) - 1) : Tail(s)[i] = s[i + 1]
    BY <1>4
  <2>2. ASSUME NEW i \in DOMAIN s PROVE s[i] \in {Head(s)} \cup Elements(Tail(s))
    <3>1. CASE i = 1 BY <2>1, <3>1
    <3>2. CASE i # 1
      <4>1. i - 1 \in DOMAIN Tail(s) /\ s[i] = Tail(s)[i - 1] BY <1>1, <2>1, <3>2
      <4> QED BY <4>1 DEF Elements
    <3> QED BY <3>1, <3>2
  <2>3. ASSUME NEW i \in DOMAIN Tail(s) PROVE Tail(s)[i] \in Elements(s)
    <3>1. i + 1 \in DOMAIN s /\ Tail(s)[i] = s[i + 1] BY <1>1, <2>1
    <3> QED BY <3>1 DEF Elements
  <2>4. Head(s) \in Elements(s) BY <1>1, <2>1 DEF Elements
  <2>5. \A e : e \in Elements(s) <=> e \in {Head(s)} \cup Elements(Tail(s))
    BY <2>2, <2>3, <2>4 DEF Elements
  <2> QED BY <1>1, <2>1, <2>5
<1>5. ASSUME NEW a \in S
      PROVE  Append(s, a) \in Seq(S) /\ Elements(Append(s, a)) = Elements(s) \cup {a}
  <2>1. /\ Append(s, a) \in Seq(S) /\ DOMAIN Append(s, a) = 1..(Len(s) + 1)
        /\ \A i \in 1..Len(s) : Append(s, a)[i] = s[i]
        /\ Append(s, a)[Len(s) + 1] = a
    BY <1>1
  <2>2. \A i \in 1..(Len(s) + 1) : i \in 1..Len(s) \/ i = Len(s) + 1 BY <1>1
  <2>3. \A i \in 1..Len(s) : i \in 1..(Len(s) + 1) BY <1>1
  <2>4. Len(s) + 1 \in 1..(Len(s) + 1) BY <1>1
  <2>5. \A e : e \in Elements(Append(s, a)) <=> e \in Elements(s) \cup {a}
    BY <1>1, <2>1, <2>2, <2>3, <2>4 DEF Elements
  <2> QED BY <2>1, <2>5
<1> QED BY <1>2, <1>3, <1>4, <1>5

LEMMA NoElements == \A S : <<>> \in Seq(S) /\ Elements(<<>>) = {}
<1> TAKE S
<1>1. <<>> \in Seq(S) /\ DOMAIN <<>> = {} OBVIOUS
<1> QED BY <1>1 DEF Elements

LEMMA ElementsButLast ==
    ASSUME NEW S, NEW s \in Seq(S), s # <<>>
    PROVE  LET rest == SubSeq(s, 1, Len(s) - 1) IN
           /\ rest \in Seq(S) /\ s[Len(s)] \in S
           /\ Elements(s) \subseteq Elements(rest) \cup {s[Len(s)]}
<1> DEFINE rest == SubSeq(s, 1, Len(s) - 1)
<1>1. DOMAIN s = 1..Len(s) /\ Len(s) \in Nat /\ Len(s) >= 1 OBVIOUS
<1>2. rest \in Seq(S) /\ Len(rest) = Len(s) - 1 /\ DOMAIN rest = 1..(Len(s) - 1) BY <1>1
<1>3. \A i \in 1..(Len(s) - 1) : rest[i] = s[i] BY <1>1
<1> HIDE DEF rest
<1>4. \A n \in Nat : \A i \in 1..n : i \in 1..(n - 1) \/ i = n OBVIOUS
<1>5. Elements(s) \subseteq Elements(rest) \cup {s[Len(s)]} BY <1>1, <1>2, <1>3, <1>4 DEF Elements
<1>6. s[Len(s)] \in S BY <1>1
<1> QED BY <1>2, <1>5, <1>6 DEF rest

(* The stores a rotation changes that finds these keys. *)
Wanted(all, held) == {s \in Stores :
    \/ s = "dsh"
    \/ s = "tencent" /\ all /\ Known("tencent") /\ held["tencent"] # None
    \/ s = "strix" /\ Known("runtime")}

LEMMA ChosenElements ==
    ASSUME NEW S, NEW plan \in Seq(S), NEW chosen, NEW n \in 0..Len(plan)
    PROVE  \A e : e \in Elements(Left(plan, chosen, n))
                     <=> e \in chosen /\ \E j \in 1..n : e = FromEnd(plan, j)
<1> DEFINE Ok(k) == \A e : e \in Elements(Left(plan, chosen, k))
                               <=> e \in chosen /\ \E j \in 1..k : e = FromEnd(plan, j)
           T == {k \in 0..Len(plan) : ~Ok(k)}
<1> SUFFICES ASSUME T # {} PROVE FALSE OBVIOUS
<1>1. Len(plan) \in Nat /\ T \subseteq Nat OBVIOUS
<1>2. \A k \in T : k \in 0..Len(plan) /\ ~Ok(k) OBVIOUS
<1>3. \A k \in 0..Len(plan) : k \notin T => Ok(k) OBVIOUS
<1> HIDE DEF T
<1>4. PICK k \in T : \A m \in T : k <= m BY <1>1, LeastNumber
<1>5. k # 0
  <2>1. Left(plan, chosen, 0) = <<>> BY LeftIs
  <2>2. <<>> \in Seq(S) OBVIOUS
  <2>3. Elements(Left(plan, chosen, 0)) = {} BY <2>1, <2>2, ElementsOf
  <2>4. Ok(0) BY <2>3
  <2> QED BY <1>2, <2>4
<1>6. /\ k \in Nat /\ k \in 1..Len(plan) /\ k - 1 \in 0..Len(plan) /\ k - 1 \notin T
  BY <1>1, <1>2, <1>4, <1>5
<1> DEFINE rest == Left(plan, chosen, k - 1)
           step == FromEnd(plan, k)
<1>7. Left(plan, chosen, k) = IF step \in chosen THEN <<step>> \o rest ELSE rest
  <2>1. Left(plan, chosen, k) = RemainingNext(plan, chosen, k, Left(plan, chosen, k - 1))
    BY <1>6, LeftIs
  <2> QED BY <2>1 DEF RemainingNext
<1>8. rest \in Seq(S) /\ step \in S BY <1>6, LeftSeq, LeftIs
<1>9. \A e : e \in Elements(rest) <=> e \in chosen /\ \E j \in 1..(k - 1) : e = FromEnd(plan, j)
  BY <1>3, <1>6
<1>10. \A j \in 1..k : j = k \/ j \in 1..(k - 1) BY <1>6
<1>11. k \in 1..k /\ \A j \in 1..(k - 1) : j \in 1..k BY <1>6
<1>12. CASE step \notin chosen
  <2>1. Left(plan, chosen, k) = rest BY <1>7, <1>12
  <2>2. Ok(k) BY <1>9, <1>10, <1>11, <1>12, <2>1
  <2> QED BY <1>2, <2>2
<1>13. CASE step \in chosen
  <2>1. PICK all : all = <<step>> \o rest OBVIOUS
  <2>2. all \in Seq(S) /\ all # <<>> /\ Head(all) = step /\ Tail(all) = rest
    <3> HIDE DEF step, rest
    <3> QED BY <1>8, <2>1
  <2>3. Elements(all) = {step} \cup Elements(rest) BY <2>2, ElementsOf
  <2>4. Left(plan, chosen, k) = all BY <1>7, <1>13, <2>1
  <2>5. Ok(k) BY <1>9, <1>10, <1>11, <1>13, <2>3, <2>4
  <2> QED BY <1>2, <2>5
<1> QED BY <1>12, <1>13

LEMMA TargetsAre ==
    ASSUME NEW all
    PROVE  Targets(all) \in Seq(Stores) /\ Elements(Targets(all)) = Wanted(all, stores)
<1> DEFINE plan == <<"dsh", "tencent", "strix">>
<1>1. /\ plan \in Seq(Stores) /\ Len(plan) = 3 /\ FromEnd(plan, 1) = "strix"
      /\ FromEnd(plan, 2) = "tencent" /\ FromEnd(plan, 3) = "dsh"
  BY DEF Stores, FromEnd
<1>2. Targets(all) = Left(plan, Wanted(all, stores), 3)
  BY <1>1 DEF Targets, Wanted, Chosen, Left
<1> HIDE DEF plan
<1>3. 3 \in 0..Len(plan) BY <1>1
<1>4. \A e : e \in Elements(Targets(all)) <=> e \in Wanted(all, stores) /\ \E j \in 1..3 : e = FromEnd(plan, j)
  <2>1. PICK wanted : wanted = Wanted(all, stores) OBVIOUS
  <2>2. plan \in Seq(Stores) /\ 3 \in 0..Len(plan) BY <1>1, <1>3
  <2>3. \A e : e \in Elements(Left(plan, wanted, 3))
                 <=> e \in wanted /\ \E j \in 1..3 : e = FromEnd(plan, j)
    BY <2>2, ChosenElements
  <2> QED BY <1>2, <2>1, <2>3
<1>5. \A e \in Stores : \E j \in 1..3 : e = FromEnd(plan, j)
  <2>1. 1 \in 1..3 /\ 2 \in 1..3 /\ 3 \in 1..3 OBVIOUS
  <2> QED BY <1>1, <2>1 DEF Stores
<1>6. Wanted(all, stores) \subseteq Stores BY DEF Wanted
<1>7. Targets(all) \in Seq(Stores) BY <1>1, <1>2, <1>3, LeftSeq
<1> QED BY <1>4, <1>5, <1>6, <1>7

(* A command that sets the key, at its steps; what it has staged, committed or *)
(* undone so far.                                                              *)
KeyOps    == {"rotate", "resolve", "bundle"}
Switching == {"stage", "backupKeys", "commit", "undo"}
Later     == Updating \cup {"latest"}
AllKeys   == Keys \cup {None}

HostTypes ==
    /\ parts \in [Parts -> {"whole", "partial", "gone"}]
    /\ {stores, cmd.stores, cmd.staged} \subseteq [Stores -> AllKeys]
    /\ DOMAIN cmd = DOMAIN Idle /\ {cmd.saved, cmd.torn, cmd.here} \subseteq BOOLEAN

OpFits ==
    /\ cmd.pc \in Switching => cmd.op \in KeyOps
    /\ cmd.pc = "reload" => cmd.op = "rotate" /\ cmd.saved
    /\ cmd.pc = "integrate" => cmd.op = "bundle"
    /\ cmd.pc \in {"record", "enable", "disable", "remove"} => cmd.op \notin KeyOps
    /\ cmd.pc \in Later => cmd.op \in {"update", "install", "bundle"}

KeyOf(chosen) == [s \in Stores |-> IF s \in chosen THEN cmd.key ELSE None]

SwitchFits ==
    LET done == Elements(cmd.done)
        all  == Wanted(cmd.op = "rotate", cmd.stores) IN
    /\ cmd.key \in Keys /\ ~cmd.saved /\ {cmd.todo, cmd.done} \subseteq Seq(Stores)
    /\ cmd.pc = "stage" =>
          done \cup Elements(cmd.todo) = all /\ cmd.staged = KeyOf(done) /\ stores = cmd.stores
    /\ cmd.pc = "backupKeys" =>
          done = {} /\ Elements(cmd.todo) = all /\ cmd.staged = KeyOf(all) /\ stores = cmd.stores
    /\ cmd.pc = "commit" =>
          /\ done \cup Elements(cmd.todo) = all /\ cmd.staged = KeyOf(all)
          /\ \A s \in Stores : stores[s] = IF s \in done THEN cmd.key ELSE cmd.stores[s]
    /\ cmd.pc = "undo" =>
          cmd.torn \/ \A s \in Stores \ done : stores[s] = cmd.stores[s]

SavedEverywhere ==
    /\ stores["dsh"] = cmd.key
    /\ Known("runtime") => stores["strix"] = cmd.key
    /\ cmd.op = "rotate" /\ Known("tencent") /\ stores["tencent"] # None
          => stores["tencent"] = cmd.key

Unchanged == stores = cmd.stores /\ cmd.staged = NoKeys

(* The rest of the bundle from its i-th step, and what those before have made. *)
AtStep(todo, plan, i) ==
    /\ todo \in Seq(Elements(plan)) /\ Len(todo) = Len(plan) + 1 - i
    /\ \A j \in 1..Len(todo) : todo[j] = plan[i - 1 + j]

Made(step) ==
    /\ step \in Parts \ {"tencent"} => parts[step] = "whole"
    /\ Names(step) # {} => Names(step) \subseteq listed /\ parts["global"] = "whole"
    /\ step = "key" => cmd.saved

Reached(plan, i) ==
    /\ \A j \in 1..(i - 1) : Made(plan[j])
    /\ i <= 3 => cmd.key = None /\ ~cmd.saved /\ cmd.staged = NoKeys

BundleFits ==
    LET plan == Bundle(cmd.here) IN
    /\ cmd.pc = "integrate" =>
          \E i \in 1..(Len(plan) + 1) : AtStep(cmd.todo, plan, i) /\ Reached(plan, i)
    /\ cmd.pc \in Switching => AtStep(cmd.later, plan, 4) /\ Made(plan[1]) /\ Made(plan[2])
    /\ cmd.pc \in Later \cup {"ok"} => Reached(plan, Len(plan) + 1)

KeyInvariant ==
    /\ HostTypes /\ OpFits
    /\ cmd.pc \in Switching => SwitchFits
    /\ cmd.op \in KeyOps /\ cmd.saved => SavedEverywhere
    /\ cmd.op \in KeyOps /\ cmd.pc = "failed" /\ ~cmd.saved /\ ~cmd.torn /\ cmd.key # None => Unchanged
    /\ cmd.op = "bundle" => BundleFits

LEMMA KeyInit == Init => KeyInvariant
<1> SUFFICES ASSUME Init PROVE KeyInvariant
  OBVIOUS
<1>1. cmd = Idle BY DEF Init
<1>2. /\ Idle.pc = "idle" /\ Idle.op = None /\ Idle.saved = FALSE /\ Idle.torn = FALSE /\ Idle.here = FALSE
      /\ Idle.key = None /\ Idle.stores = NoKeys /\ Idle.staged = NoKeys
  BY DEF Idle
<1>3. NoKeys \in [Stores -> AllKeys] BY DEF NoKeys, AllKeys
<1>4. stores \in [Stores -> AllKeys]
  <2>1. PICK k \in Keys : stores = [s \in Stores |-> k] \/ stores \in {NoKeys, [NoKeys EXCEPT !["dsh"] = k]}
    BY DEF Init
  <2> QED BY <1>3, <2>1 DEF AllKeys
<1>5. parts \in [Parts -> {"whole", "partial", "gone"}] BY DEF Init
<1>6. HostTypes BY <1>1, <1>2, <1>3, <1>4, <1>5 DEF HostTypes
<1>7. OpFits /\ cmd.pc \notin Switching /\ cmd.pc # "failed" /\ ~cmd.saved
  BY <1>1, <1>2 DEF OpFits, Switching, Later, Updating
<1>8. BundleFits BY <1>1, <1>2 DEF BundleFits, Switching, Later, Updating
<1> QED BY <1>6, <1>7, <1>8 DEF KeyInvariant

LEMMA OtherOps ==
    ASSUME HostTypes', OpFits', cmd'.op \notin KeyOps
    PROVE  KeyInvariant'
<1>1. cmd'.pc \notin Switching BY DEF OpFits
<1>2. cmd'.op # "bundle" BY DEF KeyOps
<1> QED BY <1>1, <1>2 DEF KeyInvariant

(* What is made stays, as long as parts and what is listed only grow. *)
Grows ==
    /\ \A x \in Parts \ {"tencent"} : parts[x] = "whole" => parts'[x] = "whole"
    /\ parts["global"] = "whole" => listed \subseteq listed'
    /\ cmd.saved => cmd'.saved

LEMMA MadeStays ==
    ASSUME Grows, NEW step, Made(step)
    PROVE  Made(step)'
<1>1. "global" \in Parts \ {"tencent"} BY DEF Parts
<1>2. Names(step)' = Names(step) BY DEF Names
<1> QED BY <1>1, <1>2 DEF Grows, Made

StepNames ==
    {"runtime", "saveRuntime", "key", "dsh", "patch", "baseline", "dshReceipt", "saveDSH",
     "codex", "hooks", "codexReceipt", "saveCodex",
     "checkout", "containers", "manifest", "tencentReceipt", "saveTencent",
     "project", "gitignore", "saveProject"}

Joined(both, s, t) == both = s \o t

JoinedIs(S, both, s, t) ==
    /\ both \in Seq(S) /\ Len(both) = Len(s) + Len(t)
    /\ \A j \in 1..Len(s) : both[j] = s[j]
    /\ \A j \in 1..Len(t) : both[Len(s) + j] = t[j]

LEMMA Concatenated ==
    ASSUME NEW S, NEW s \in Seq(S), NEW t \in Seq(S), NEW both, Joined(both, s, t)
    PROVE  JoinedIs(S, both, s, t)
<1>1. both \in Seq(S) /\ Len(both) = Len(s) + Len(t) /\ \A j \in 1..Len(s) : both[j] = s[j]
  BY DEF Joined
<1>2. ASSUME NEW j \in 1..Len(t) PROVE both[Len(s) + j] = t[j]
  <2>1. Len(s) \in Nat /\ Len(t) \in Nat OBVIOUS
  <2>2. /\ Len(s) + j \in 1..(Len(s) + Len(t)) /\ ~(Len(s) + j <= Len(s))
        /\ (Len(s) + j) - Len(s) = j
    BY <2>1
  <2> QED BY <2>2 DEF Joined
<1> QED BY <1>1, <1>2 DEF JoinedIs

LEMMA BundleIs ==
    ASSUME NEW here \in BOOLEAN
    PROVE  LET plan == Bundle(here) IN
           /\ plan \in Seq(Elements(plan)) /\ Len(plan) \in {17, 20}
           /\ plan[1] = "runtime" /\ plan[2] = "saveRuntime" /\ plan[3] = "key"
           /\ plan[13] = "checkout" /\ plan[14] = "containers" /\ plan[15] = "manifest"
           /\ \A j \in 4..Len(plan) : plan[j] \notin {"runtime", "saveRuntime", "key"}
           /\ \A j \in 1..Len(plan) : plan[j] = "checkout" => j = 13
           /\ {"runtime", "saveRuntime", "dsh", "patch", "baseline", "dshReceipt", "saveDSH",
               "codex", "hooks", "codexReceipt", "saveCodex", "containers", "tencentReceipt", "saveTencent"}
                 \subseteq Elements(plan)
           /\ here => {"project", "gitignore", "saveProject"} \subseteq Elements(plan)
<1> DEFINE first == <<"runtime", "saveRuntime", "key", "dsh", "patch", "baseline", "dshReceipt", "saveDSH",
                      "codex", "hooks", "codexReceipt", "saveCodex",
                      "checkout", "containers", "manifest", "tencentReceipt", "saveTencent">>
           rest  == IF here THEN <<"project", "gitignore", "saveProject">> ELSE <<>>
           plan  == Bundle(here)
<1>1. /\ first \in Seq(StepNames) /\ Len(first) = 17
      /\ first[1] = "runtime" /\ first[2] = "saveRuntime" /\ first[3] = "key" /\ first[4] = "dsh"
      /\ first[5] = "patch" /\ first[6] = "baseline" /\ first[7] = "dshReceipt" /\ first[8] = "saveDSH"
      /\ first[9] = "codex" /\ first[10] = "hooks" /\ first[11] = "codexReceipt" /\ first[12] = "saveCodex"
      /\ first[13] = "checkout" /\ first[14] = "containers" /\ first[15] = "manifest"
      /\ first[16] = "tencentReceipt" /\ first[17] = "saveTencent"
  <2>1. first \in Seq(StepNames) BY DEF StepNames
  <2>2. Len(first) = 17 OBVIOUS
  <2> HIDE DEF StepNames
  <2> QED BY <2>1, <2>2
<1>2. /\ rest \in Seq(StepNames) /\ Len(rest) = (IF here THEN 3 ELSE 0)
      /\ here => rest[1] = "project" /\ rest[2] = "gitignore" /\ rest[3] = "saveProject"
  <2>1. CASE here
    <3>1. rest = <<"project", "gitignore", "saveProject">> BY <2>1
    <3>2. Len(rest) = 3 /\ rest[1] = "project" /\ rest[2] = "gitignore" /\ rest[3] = "saveProject"
      BY <3>1
    <3>3. <<"project", "gitignore", "saveProject">> \in Seq(StepNames) BY DEF StepNames
    <3>4. rest \in Seq(StepNames) BY <3>1, <3>3
    <3> HIDE DEF rest
    <3> QED BY <2>1, <3>2, <3>4
  <2>2. CASE ~here
    <3>1. rest = <<>> BY <2>2
    <3>2. Len(rest) = 0 /\ rest \in Seq(StepNames) BY <3>1
    <3> HIDE DEF rest
    <3> QED BY <2>2, <3>2
  <2> QED BY <2>1, <2>2
<1>3. Joined(plan, first, rest) BY DEF Bundle, Joined
<1> HIDE DEF first, rest, plan
<1>4. /\ plan \in Seq(StepNames) /\ Len(plan) = 17 + Len(rest)
      /\ \A j \in 1..17 : plan[j] = first[j]
      /\ \A j \in 1..Len(rest) : plan[17 + j] = rest[j]
  <2>0. first \in Seq(StepNames) /\ rest \in Seq(StepNames) /\ Len(first) = 17 BY <1>1, <1>2
  <2>1. JoinedIs(StepNames, plan, first, rest) BY <1>3, <2>0, Concatenated
  <2> QED BY <2>0, <2>1 DEF JoinedIs
<1>5. Len(plan) = (IF here THEN 20 ELSE 17) BY <1>2, <1>4
<1>6. /\ plan[1] = "runtime" /\ plan[2] = "saveRuntime" /\ plan[3] = "key" /\ plan[4] = "dsh"
      /\ plan[5] = "patch" /\ plan[6] = "baseline" /\ plan[7] = "dshReceipt" /\ plan[8] = "saveDSH"
      /\ plan[9] = "codex" /\ plan[10] = "hooks" /\ plan[11] = "codexReceipt" /\ plan[12] = "saveCodex"
      /\ plan[13] = "checkout" /\ plan[14] = "containers" /\ plan[15] = "manifest"
      /\ plan[16] = "tencentReceipt" /\ plan[17] = "saveTencent"
  BY <1>1, <1>4
<1>7. here => plan[18] = "project" /\ plan[19] = "gitignore" /\ plan[20] = "saveProject"
  <2> SUFFICES ASSUME here PROVE plan[18] = "project" /\ plan[19] = "gitignore" /\ plan[20] = "saveProject"
    OBVIOUS
  <2>1. Len(rest) = 3 /\ 1 \in 1..Len(rest) /\ 2 \in 1..Len(rest) /\ 3 \in 1..Len(rest) BY <1>2
  <2>2. /\ plan[17 + 1] = rest[1] /\ plan[17 + 2] = rest[2] /\ plan[17 + 3] = rest[3] BY <1>4, <2>1
  <2> QED BY <1>2, <2>2
<1>8. plan \in Seq(Elements(plan))
  <2>1. DOMAIN plan = 1..Len(plan) /\ Len(plan) \in Nat BY <1>4
  <2>2. plan = [i \in 1..Len(plan) |-> plan[i]] BY <1>4
  <2>3. \A i \in 1..Len(plan) : plan[i] \in Elements(plan) BY <2>1 DEF Elements
  <2> QED BY <2>1, <2>2, <2>3
<1>9. DOMAIN plan = 1..Len(plan) BY <1>4
<1>10. \A j \in 1..Len(plan) : /\ j \in 4..Len(plan) => plan[j] \notin {"runtime", "saveRuntime", "key"}
                               /\ plan[j] = "checkout" => j = 13
  <2> SUFFICES ASSUME NEW j \in 1..Len(plan)
               PROVE  /\ j \in 4..Len(plan) => plan[j] \notin {"runtime", "saveRuntime", "key"}
                      /\ plan[j] = "checkout" => j = 13
    OBVIOUS
  <2>1. \/ j = 1 \/ j = 2 \/ j = 3 \/ j = 4 \/ j = 5 \/ j = 6 \/ j = 7 \/ j = 8 \/ j = 9 \/ j = 10
        \/ j = 11 \/ j = 12 \/ j = 13 \/ j = 14 \/ j = 15 \/ j = 16 \/ j = 17
        \/ here /\ (j = 18 \/ j = 19 \/ j = 20)
    BY <1>5
  <2>2. plan[j] = "checkout" => j = 13
    <3>1. CASE j = 1 \/ j = 2 \/ j = 3 \/ j = 4 \/ j = 5 \/ j = 6 BY <1>6, <3>1
    <3>2. CASE j = 7 \/ j = 8 \/ j = 9 \/ j = 10 \/ j = 11 \/ j = 12 BY <1>6, <3>2
    <3>3. CASE j = 14 \/ j = 15 \/ j = 16 \/ j = 17 BY <1>6, <3>3
    <3>4. CASE here /\ (j = 18 \/ j = 19 \/ j = 20) BY <1>7, <3>4
    <3> QED BY <2>1, <3>1, <3>2, <3>3, <3>4
  <2>3. j \in 4..Len(plan) => plan[j] \notin {"runtime", "saveRuntime", "key"}
    <3> SUFFICES ASSUME j >= 4 PROVE plan[j] \notin {"runtime", "saveRuntime", "key"} BY <1>5
    <3>1. j # 1 /\ j # 2 /\ j # 3 OBVIOUS
    <3>2. CASE j = 4 \/ j = 5 \/ j = 6 \/ j = 7 \/ j = 8 \/ j = 9 \/ j = 10
      <4>1. plan[j] \in {"dsh", "patch", "baseline", "dshReceipt", "saveDSH", "codex", "hooks"} BY <1>6, <3>2
      <4> QED BY <4>1
    <3>3. CASE j = 11 \/ j = 12 \/ j = 13 \/ j = 14 \/ j = 15 \/ j = 16 \/ j = 17
      <4>1. plan[j] \in {"codexReceipt", "saveCodex", "checkout", "containers", "manifest",
                         "tencentReceipt", "saveTencent"}
        BY <1>6, <3>3
      <4> QED BY <4>1
    <3>4. CASE here /\ (j = 18 \/ j = 19 \/ j = 20)
      <4>1. plan[j] \in {"project", "gitignore", "saveProject"} BY <1>7, <3>4
      <4> QED BY <4>1
    <3> QED BY <2>1, <3>1, <3>2, <3>3, <3>4
  <2> QED BY <2>2, <2>3
<1>11. \A j \in 1..17 : plan[j] \in Elements(plan)
  <2>1. \A j \in 1..17 : j \in 1..Len(plan) BY <1>5
  <2>2. \A j \in DOMAIN plan : plan[j] \in Elements(plan) BY DEF Elements
  <2> QED BY <1>9, <2>1, <2>2
<1>12. here => \A j \in 18..20 : plan[j] \in Elements(plan)
  <2>1. here => \A j \in 18..20 : j \in 1..Len(plan) BY <1>5
  <2>2. \A j \in DOMAIN plan : plan[j] \in Elements(plan) BY DEF Elements
  <2> QED BY <1>9, <2>1, <2>2
<1>13. {"runtime", "saveRuntime", "dsh", "patch", "baseline", "dshReceipt", "saveDSH",
        "codex", "hooks", "codexReceipt", "saveCodex", "containers", "tencentReceipt", "saveTencent"}
          \subseteq Elements(plan)
  <2>1. /\ 1 \in 1..17 /\ 2 \in 1..17 /\ 4 \in 1..17 /\ 5 \in 1..17 /\ 6 \in 1..17 /\ 7 \in 1..17
        /\ 8 \in 1..17 /\ 9 \in 1..17 /\ 10 \in 1..17 /\ 11 \in 1..17 /\ 12 \in 1..17 /\ 14 \in 1..17
        /\ 16 \in 1..17 /\ 17 \in 1..17
    OBVIOUS
  <2> QED BY <1>6, <1>11, <2>1
<1>14. here => {"project", "gitignore", "saveProject"} \subseteq Elements(plan)
  <2>1. 18 \in 18..20 /\ 19 \in 18..20 /\ 20 \in 18..20 OBVIOUS
  <2> QED BY <1>7, <1>12, <2>1
<1>15. \A j \in 4..Len(plan) : j \in 1..Len(plan) BY <1>5
<1> QED BY <1>5, <1>6, <1>8, <1>10, <1>13, <1>14, <1>15 DEF plan

LEMMA SavedStays ==
    ASSUME SavedEverywhere, UNCHANGED <<parts, listed, stores>>, cmd'.key = cmd.key, cmd'.op = cmd.op
    PROVE  SavedEverywhere'
BY DEF SavedEverywhere, Known

LEMMA ReachedStays ==
    ASSUME Grows, cmd'.key = cmd.key, cmd'.saved = cmd.saved, cmd'.staged = cmd.staged, NEW plan, NEW i, Reached(plan, i)
    PROVE  Reached(plan, i)'
<1>1. \A j \in 1..(i - 1) : Made(plan[j])' BY MadeStays DEF Reached
<1> QED BY <1>1 DEF Reached

(* A command that goes on beside the parts and the keys. *)
Moved == /\ DOMAIN cmd' = DOMAIN cmd
         /\ \A x \in DOMAIN Idle \ {"pc", "release", "backup"} : cmd'[x] = cmd[x]

LEMMA MovedIs ==
    ASSUME Moved
    PROVE  /\ DOMAIN cmd' = DOMAIN cmd /\ cmd'.op = cmd.op /\ cmd'.key = cmd.key /\ cmd'.todo = cmd.todo
           /\ cmd'.done = cmd.done /\ cmd'.later = cmd.later /\ cmd'.here = cmd.here
           /\ cmd'.staged = cmd.staged /\ cmd'.stores = cmd.stores /\ cmd'.saved = cmd.saved
           /\ cmd'.torn = cmd.torn
<1>1. {"op", "key", "todo", "done", "later", "here", "staged", "stores", "saved", "torn"}
          \subseteq DOMAIN Idle \ {"pc", "release", "backup"}
  BY DEF Idle
<1> QED BY <1>1 DEF Moved

LEMMA Onward ==
    ASSUME KeyInvariant, UNCHANGED <<parts, listed, stores>>, Moved,
           cmd.pc \in Later \cup {"reload"}, cmd'.pc \in Later \cup {"ok", "failed"},
           cmd'.pc \in Later => cmd.pc \in Later
    PROVE  KeyInvariant'
<1>1. /\ DOMAIN cmd' = DOMAIN cmd /\ cmd'.op = cmd.op /\ cmd'.key = cmd.key /\ cmd'.here = cmd.here
      /\ cmd'.staged = cmd.staged /\ cmd'.stores = cmd.stores /\ cmd'.saved = cmd.saved
      /\ cmd'.torn = cmd.torn
  BY MovedIs
<1>2. HostTypes' BY <1>1 DEF KeyInvariant, HostTypes
<1>3. cmd'.pc \notin Switching /\ cmd'.pc \notin {"reload", "integrate", "record", "enable", "disable", "remove"}
  BY DEF Switching, Later, Updating
<1>4. OpFits' BY <1>1, <1>3 DEF KeyInvariant, OpFits
<1>5. ASSUME cmd'.op \in KeyOps, cmd'.saved PROVE SavedEverywhere'
  BY <1>1, <1>5, SavedStays DEF KeyInvariant
<1>6. ASSUME cmd'.op = "bundle"
      PROVE  cmd'.saved /\ BundleFits'
  <2>1. cmd.pc \in Later BY <1>1, <1>6 DEF KeyInvariant, OpFits
  <2>2. PICK plan : plan = Bundle(cmd.here) OBVIOUS
  <2>3. Reached(plan, Len(plan) + 1) BY <1>1, <1>6, <2>1, <2>2 DEF KeyInvariant, BundleFits
  <2>4. Grows BY <1>1 DEF Grows
  <2>5. Reached(plan, Len(plan) + 1)' BY <1>1, <2>3, <2>4, ReachedStays
  <2>6. cmd.here \in BOOLEAN BY DEF KeyInvariant, HostTypes
  <2>7. Len(plan) \in {17, 20} /\ plan[3] = "key" BY <2>2, <2>6, BundleIs
  <2>8. 3 \in 1..((Len(plan) + 1) - 1) BY <2>7
  <2>9. cmd.saved BY <2>3, <2>7, <2>8 DEF Reached, Made
  <2>10. plan = Bundle(cmd'.here) BY <1>1, <2>2
  <2>11. BundleFits' BY <1>3, <2>5, <2>10 DEF BundleFits
  <2> QED BY <1>1, <2>9, <2>11
<1>7. ASSUME cmd'.op \in KeyOps, cmd'.pc = "failed" PROVE cmd'.saved
  <2>1. cmd.pc = "reload" \/ cmd'.op = "bundle" BY <1>1, <1>7 DEF KeyInvariant, OpFits, KeyOps
  <2> QED BY <1>1, <1>6, <2>1 DEF KeyInvariant, OpFits
<1> QED BY <1>2, <1>3, <1>4, <1>5, <1>6, <1>7 DEF KeyInvariant

LEMMA OnwardGoto ==
    ASSUME KeyInvariant, UNCHANGED <<parts, listed, stores>>, NEW pc, Goto(pc),
           cmd.pc \in Later \cup {"reload"}, pc \in Later \cup {"ok", "failed"},
           pc \in Later => cmd.pc \in Later
    PROVE  KeyInvariant'
<1>1. DOMAIN cmd = DOMAIN Idle /\ "pc" \in DOMAIN Idle BY DEF KeyInvariant, HostTypes, Idle
<1>2. Moved /\ cmd'.pc = pc BY <1>1 DEF Goto, Moved
<1> QED BY <1>2, Onward

LEMMA UpdateAside ==
    ASSUME KeyInvariant,
           \/ Latest \/ CheckManifest \/ CheckSums \/ CheckLaunch
           \/ BackupBinary \/ ReplaceBinary \/ ValidateBinary \/ RestoreBinary \/ Reload
    PROVE  KeyInvariant'
<1>1. DOMAIN cmd = DOMAIN Idle /\ {"pc", "release", "backup"} \subseteq DOMAIN Idle
  BY DEF KeyInvariant, HostTypes, Idle
<1>2. UNCHANGED <<parts, listed, stores>>
  BY DEF Latest, CheckManifest, CheckSums, CheckLaunch, Checked, BackupBinary, ReplaceBinary,
         ValidateBinary, RestoreBinary, Reload, host
<1>3. Updating \subseteq Later /\ "latest" \in Later BY DEF Later
<1>4. {"check", "sums", "launch", "backup", "replace", "validate", "restore"} \subseteq Later
  BY DEF Later, Updating
<1>5. CASE Latest
  <2>1. cmd.pc = "latest" BY <1>5 DEF Latest, At
  <2>2. CASE Goto("failed") BY <1>2, <1>3, <2>1, <2>2, OnwardGoto
  <2>3. CASE ~Goto("failed")
    <3>1. PICK release \in Releases : cmd' = [cmd EXCEPT !.release = release,
                !.pc = IF cmd.op # "install" /\ UpToDate(release) THEN "ok" ELSE "check"]
      BY <1>5, <2>3 DEF Latest
    <3>2. Moved /\ cmd'.pc \in {"ok", "check"} BY <1>1, <3>1 DEF Moved
    <3> QED BY <1>2, <1>3, <1>4, <2>1, <3>2, Onward
  <2> QED BY <2>2, <2>3
<1>6. ASSUME NEW pc, NEW holds, NEW next, Checked(pc, holds, next), pc \in Later, next \in Later
      PROVE  KeyInvariant'
  <2>1. cmd.pc = pc /\ (Goto(next) \/ Goto("failed")) BY <1>6 DEF Checked, At
  <2> QED BY <1>2, <1>6, <2>1, OnwardGoto
<1>7. CASE CheckManifest \/ CheckSums \/ CheckLaunch
  BY <1>4, <1>6, <1>7 DEF CheckManifest, CheckSums, CheckLaunch
<1>8. CASE BackupBinary
  <2>1. cmd.pc = "backup" BY <1>8 DEF BackupBinary, At
  <2>2. CASE Goto("failed") BY <1>2, <1>4, <2>1, <2>2, OnwardGoto
  <2>3. CASE ~Goto("failed")
    <3>1. cmd' = [cmd EXCEPT !.pc = "replace", !.backup = binary] BY <1>8, <2>3 DEF BackupBinary
    <3>2. Moved /\ cmd'.pc = "replace" BY <1>1, <3>1 DEF Moved
    <3> QED BY <1>2, <1>4, <2>1, <3>2, Onward
  <2> QED BY <2>2, <2>3
<1>9. CASE ReplaceBinary
  <2>1. cmd.pc = "replace" /\ (Goto("validate") \/ Goto("failed")) BY <1>9 DEF ReplaceBinary, At
  <2> QED BY <1>2, <1>4, <2>1, OnwardGoto
<1>10. CASE ValidateBinary
  <2>1. cmd.pc = "validate" /\ (Goto("ok") \/ Goto("restore")) BY <1>10 DEF ValidateBinary, At
  <2> QED BY <1>2, <1>4, <2>1, OnwardGoto
<1>11. CASE RestoreBinary
  <2>1. cmd.pc = "restore" /\ Goto("failed") BY <1>11 DEF RestoreBinary, At
  <2> QED BY <1>2, <1>4, <2>1, OnwardGoto
<1>12. CASE Reload
  <2>1. cmd.pc = "reload" /\ (Goto("ok") \/ Goto("failed")) BY <1>12 DEF Reload, At
  <2>2. "ok" \notin Later /\ "failed" \notin Later BY DEF Later, Updating
  <2> QED BY <1>2, <2>1, <2>2, OnwardGoto
<1> QED BY <1>5, <1>7, <1>8, <1>9, <1>10, <1>11, <1>12

(* A rotation goes on, or it has failed. *)
LEMMA SwitchGoes ==
    ASSUME KeyInvariant, UNCHANGED <<parts, listed>>, cmd.pc \in Switching, cmd'.pc \in Switching,
           cmd'.op = cmd.op, cmd'.here = cmd.here, cmd'.later = cmd.later, cmd'.saved = cmd.saved,
           HostTypes', SwitchFits'
    PROVE  KeyInvariant'
<1>1. cmd'.pc \notin {"reload", "integrate", "record", "enable", "disable", "remove", "failed", "ok"} \cup Later
  BY DEF Switching, Later, Updating
<1>2. OpFits' BY <1>1 DEF KeyInvariant, OpFits
<1>3. ~cmd'.saved BY DEF SwitchFits
<1>4. ASSUME cmd'.op = "bundle" PROVE BundleFits'
  <2>1. PICK plan : plan = Bundle(cmd.here) OBVIOUS
  <2>2. AtStep(cmd.later, plan, 4) /\ Made(plan[1]) /\ Made(plan[2])
    BY <1>4, <2>1 DEF KeyInvariant, BundleFits
  <2>3. Grows BY DEF Grows
  <2>4. Made(plan[1])' /\ Made(plan[2])' BY <2>2, <2>3, MadeStays
  <2>5. plan = Bundle(cmd'.here) /\ AtStep(cmd'.later, plan, 4) BY <2>1, <2>2
  <2> QED BY <1>1, <2>4, <2>5 DEF BundleFits
<1> QED BY <1>1, <1>2, <1>3, <1>4 DEF KeyInvariant

LEMMA SwitchFails ==
    ASSUME KeyInvariant, cmd'.pc = "failed", HostTypes', ~cmd'.saved, cmd'.torn \/ Unchanged'
    PROVE  KeyInvariant'
<1>1. cmd'.pc \notin Switching /\ cmd'.pc \notin Later BY DEF Switching, Later, Updating
<1>2. OpFits' BY <1>1 DEF OpFits
<1>3. BundleFits' BY <1>1 DEF BundleFits
<1> QED BY <1>1, <1>2, <1>3 DEF KeyInvariant

LEMMA KeyOfIs == cmd.key \in Keys => \A chosen : KeyOf(chosen) \in [Stores -> AllKeys]
BY DEF KeyOf, AllKeys

LEMMA SwitchSteps ==
    ASSUME KeyInvariant, Stage \/ BackupKeys \/ Commit \/ UndoKey \/ EndUndo
    PROVE  KeyInvariant'
<1>1. /\ DOMAIN cmd = DOMAIN Idle /\ HostTypes
      /\ {"pc", "op", "key", "here", "todo", "done", "later", "staged", "stores", "saved", "torn"}
            \subseteq DOMAIN Idle
  BY DEF KeyInvariant, HostTypes, Idle
<1>2. cmd.pc \in Switching /\ UNCHANGED <<parts, listed>>
  BY DEF Stage, BackupKeys, Commit, UndoKey, EndUndo, At, Switching, host
<1>3. SwitchFits /\ cmd.key \in Keys /\ ~cmd.saved /\ cmd.todo \in Seq(Stores) /\ cmd.done \in Seq(Stores)
  BY <1>2 DEF KeyInvariant, SwitchFits
<1>4. NoKeys \in [Stores -> AllKeys] BY DEF NoKeys, AllKeys
<1>5. \A chosen : KeyOf(chosen) \in [Stores -> AllKeys] BY <1>3, KeyOfIs
<1>6. {"stage", "backupKeys", "commit", "undo"} = Switching BY DEF Switching
(* The staged keys given up, with every store as it was found. *)
<1>7. ASSUME Unstage("failed"), UNCHANGED stores, cmd.torn \/ stores = cmd.stores PROVE KeyInvariant'
  <2>1. /\ DOMAIN cmd' = DOMAIN cmd /\ cmd'.pc = "failed" /\ cmd'.staged = NoKeys /\ cmd'.stores = cmd.stores
        /\ cmd'.saved = cmd.saved /\ cmd'.torn = cmd.torn /\ cmd'.here = cmd.here
    BY <1>1, <1>7 DEF Unstage
  <2>2. HostTypes' BY <1>1, <1>2, <1>4, <1>7, <2>1 DEF HostTypes
  <2>3. cmd'.torn \/ Unchanged' BY <1>7, <2>1 DEF Unchanged
  <2> QED BY <1>3, <2>1, <2>2, <2>3, SwitchFails
<1>8. CASE Stage
  <2>1. /\ cmd.pc = "stage" /\ stores' = stores /\ stores = cmd.stores
        /\ Elements(cmd.done) \cup Elements(cmd.todo) = Wanted(cmd.op = "rotate", cmd.stores)
        /\ cmd.staged = KeyOf(Elements(cmd.done))
    BY <1>3, <1>8 DEF Stage, At, SwitchFits
  <2>2. CASE Unstage("failed") BY <1>7, <2>1, <2>2
  <2>3. CASE cmd' = [cmd EXCEPT !.pc = "failed", !.staged = NoKeys, !.torn = TRUE]
    <3>1. /\ DOMAIN cmd' = DOMAIN cmd /\ cmd'.pc = "failed" /\ cmd'.staged = NoKeys /\ cmd'.stores = cmd.stores
          /\ cmd'.saved = cmd.saved /\ cmd'.torn = TRUE /\ cmd'.here = cmd.here
      BY <1>1, <2>3
    <3>2. HostTypes' BY <1>1, <1>2, <1>4, <2>1, <3>1 DEF HostTypes
    <3> QED BY <1>3, <3>1, <3>2, SwitchFails
  <2>4. CASE cmd.todo # <<>> /\ cmd' = [cmd EXCEPT !.todo = Tail(@), !.done = Append(@, Head(cmd.todo)),
                                !.staged = CredentialData(Head(cmd.todo))]
    <3>1. PICK s : s = Head(cmd.todo) OBVIOUS
    <3>2. /\ DOMAIN cmd' = DOMAIN cmd /\ cmd'.pc = cmd.pc /\ cmd'.stores = cmd.stores /\ cmd'.op = cmd.op
          /\ cmd'.key = cmd.key /\ cmd'.later = cmd.later /\ cmd'.todo = Tail(cmd.todo)
          /\ cmd'.done = Append(cmd.done, s) /\ cmd'.staged = [cmd.staged EXCEPT ![s] = cmd.key]
          /\ cmd'.saved = cmd.saved /\ cmd'.torn = cmd.torn /\ cmd'.here = cmd.here
      BY <1>1, <2>4, <3>1 DEF CredentialData
    <3>3. /\ s \in Stores /\ cmd'.todo \in Seq(Stores) /\ cmd'.done \in Seq(Stores)
          /\ Elements(cmd.todo) = {s} \cup Elements(cmd'.todo)
          /\ Elements(cmd'.done) = Elements(cmd.done) \cup {s}
      BY <1>3, <2>4, <3>1, <3>2, ElementsOf
    <3>4. cmd'.staged = KeyOf(Elements(cmd.done))'
      <4>1. cmd'.staged = [x \in Stores |-> IF x \in Elements(cmd'.done) THEN cmd.key ELSE None]
        BY <2>1, <3>2, <3>3 DEF KeyOf
      <4> QED BY <3>2, <4>1 DEF KeyOf
    <3>5. cmd'.staged \in [Stores -> AllKeys]
      BY <1>3, <3>2, <3>4 DEF KeyOf, AllKeys
    <3>6. HostTypes' BY <1>1, <1>2, <2>1, <3>2, <3>5 DEF HostTypes
    <3>7. Wanted(cmd.op = "rotate", cmd.stores)' = Wanted(cmd.op = "rotate", cmd.stores)
      BY <1>2, <3>2 DEF Wanted, Known
    <3>8. Elements(cmd'.done) \cup Elements(cmd'.todo) = Wanted(cmd.op = "rotate", cmd.stores)'
      BY <2>1, <3>3, <3>7
    <3>9. SwitchFits' BY <1>3, <2>1, <3>2, <3>3, <3>4, <3>8 DEF SwitchFits
    <3> QED BY <1>2, <3>2, <3>6, <3>9, SwitchGoes
  <2>5. CASE cmd.todo = <<>> /\ cmd' = [cmd EXCEPT !.pc = "backupKeys", !.todo = cmd.done, !.done = <<>>]
    <3>1. /\ DOMAIN cmd' = DOMAIN cmd /\ cmd'.pc = "backupKeys" /\ cmd'.stores = cmd.stores /\ cmd'.op = cmd.op
          /\ cmd'.key = cmd.key /\ cmd'.later = cmd.later /\ cmd'.todo = cmd.done
          /\ cmd'.done = <<>> /\ cmd'.staged = cmd.staged
          /\ cmd'.saved = cmd.saved /\ cmd'.torn = cmd.torn /\ cmd'.here = cmd.here
      BY <1>1, <2>5
    <3>2. HostTypes' BY <1>1, <1>2, <2>1, <3>1 DEF HostTypes
    <3>3. Elements(cmd.todo) = {} BY <1>3, <2>5, ElementsOf
    <3>4. <<>> \in Seq(Stores) /\ Elements(<<>>) = {} BY NoElements
    <3>5. cmd'.done \in Seq(Stores) /\ Elements(cmd'.done) = {} BY <3>1, <3>4
    <3>6. Wanted(cmd.op = "rotate", cmd.stores)' = Elements(cmd.done)
      <4>1. Wanted(cmd.op = "rotate", cmd.stores)' = Wanted(cmd.op = "rotate", cmd.stores) BY <1>2, <3>1 DEF Wanted, Known
      <4> QED BY <2>1, <3>3, <4>1
    <3>7. cmd'.staged = KeyOf(Wanted(cmd.op = "rotate", cmd.stores))'
      <4>1. cmd'.staged = [x \in Stores |-> IF x \in Wanted(cmd.op = "rotate", cmd.stores)' THEN cmd'.key ELSE None]
        BY <2>1, <3>1, <3>6 DEF KeyOf
      <4> QED BY <4>1 DEF KeyOf
    <3>8. SwitchFits' BY <1>3, <2>1, <3>1, <3>5, <3>6, <3>7 DEF SwitchFits
    <3> QED BY <1>2, <1>6, <3>1, <3>2, <3>8, SwitchGoes
  <2> QED BY <1>8, <2>2, <2>3, <2>4, <2>5 DEF Stage
<1>9. CASE BackupKeys
  <2>1. /\ cmd.pc = "backupKeys" /\ stores' = stores /\ stores = cmd.stores /\ Elements(cmd.done) = {}
        /\ Elements(cmd.todo) = Wanted(cmd.op = "rotate", cmd.stores)
        /\ cmd.staged = KeyOf(Wanted(cmd.op = "rotate", cmd.stores))
    BY <1>3, <1>9 DEF BackupKeys, At, SwitchFits, host
  <2>2. CASE Unstage("failed") BY <1>7, <2>1, <2>2
  <2>3. CASE Goto("commit")
    <3>1. /\ DOMAIN cmd' = DOMAIN cmd /\ cmd'.pc = "commit" /\ cmd'.stores = cmd.stores /\ cmd'.op = cmd.op
          /\ cmd'.key = cmd.key /\ cmd'.later = cmd.later /\ cmd'.todo = cmd.todo
          /\ cmd'.done = cmd.done /\ cmd'.staged = cmd.staged
          /\ cmd'.saved = cmd.saved /\ cmd'.torn = cmd.torn /\ cmd'.here = cmd.here
      BY <1>1, <2>3 DEF Goto
    <3>2. HostTypes' BY <1>1, <1>2, <2>1, <3>1 DEF HostTypes
    <3>3. Wanted(cmd.op = "rotate", cmd.stores)' = Wanted(cmd.op = "rotate", cmd.stores) BY <1>2, <3>1 DEF Wanted, Known
    <3>4. cmd'.staged = KeyOf(Wanted(cmd.op = "rotate", cmd.stores))' BY <2>1, <3>1, <3>3 DEF KeyOf
    <3>5. SwitchFits' BY <1>3, <2>1, <3>1, <3>3, <3>4 DEF SwitchFits
    <3> QED BY <1>2, <1>6, <3>1, <3>2, <3>5, SwitchGoes
  <2> QED BY <1>9, <2>2, <2>3 DEF BackupKeys
<1>10. CASE EndUndo
  <2>1. cmd.pc = "undo" /\ cmd.done = <<>> /\ Unstage("failed") /\ stores' = stores
    BY <1>10 DEF EndUndo, At, host
  <2>2. Elements(cmd.done) = {} BY <1>3, <2>1, ElementsOf
  <2>3. cmd.torn \/ \A s \in Stores : stores[s] = cmd.stores[s]
    BY <1>3, <2>1, <2>2 DEF SwitchFits
  <2>4. cmd.torn \/ stores = cmd.stores BY <1>1, <2>3 DEF HostTypes
  <2> QED BY <1>7, <2>1, <2>4
<1>11. CASE UndoKey
  <2>1. cmd.pc = "undo" /\ cmd.done # <<>> BY <1>11 DEF UndoKey, At
  <2>2. PICK s, rest : s = cmd.done[Len(cmd.done)] /\ rest = SubSeq(cmd.done, 1, Len(cmd.done) - 1)
    OBVIOUS
  <2>3. /\ rest \in Seq(Stores) /\ s \in Stores
        /\ Elements(cmd.done) \subseteq Elements(rest) \cup {s}
    BY <1>3, <2>1, <2>2, ElementsButLast
  <2>4. \/ stores' = [stores EXCEPT ![s] = cmd.stores[s]] /\ cmd' = [cmd EXCEPT !.done = rest]
        \/ stores' = stores /\ cmd' = [cmd EXCEPT !.done = rest, !.torn = TRUE]
    BY <1>11, <2>2 DEF UndoKey
  <2>5. /\ DOMAIN cmd' = DOMAIN cmd /\ cmd'.pc = cmd.pc /\ cmd'.stores = cmd.stores /\ cmd'.op = cmd.op
        /\ cmd'.key = cmd.key /\ cmd'.later = cmd.later /\ cmd'.todo = cmd.todo
        /\ cmd'.done = rest /\ cmd'.staged = cmd.staged
        /\ cmd'.saved = cmd.saved /\ cmd'.torn \in {cmd.torn, TRUE} /\ cmd'.here = cmd.here
    BY <1>1, <2>4
  <2>6. stores' \in [Stores -> AllKeys] BY <1>1, <2>3, <2>4 DEF HostTypes
  <2>7. HostTypes' BY <1>1, <1>2, <2>5, <2>6 DEF HostTypes
  <2>8. cmd'.torn \/ \A x \in Stores \ Elements(rest) : stores'[x] = cmd'.stores[x]
    <3>1. CASE cmd.torn \/ cmd' = [cmd EXCEPT !.done = rest, !.torn = TRUE]
      <4>1. cmd'.torn = TRUE BY <1>1, <2>5, <3>1 DEF HostTypes
      <4> QED BY <4>1
    <3>2. CASE ~cmd.torn /\ stores' = [stores EXCEPT ![s] = cmd.stores[s]]
      <4>1. \A x \in Stores \ Elements(cmd.done) : stores[x] = cmd.stores[x]
        BY <1>3, <2>1, <3>2 DEF SwitchFits
      <4>2. ASSUME NEW x \in Stores \ Elements(rest) PROVE stores'[x] = cmd.stores[x]
        <5>1. CASE x = s BY <1>1, <2>3, <3>2, <5>1 DEF HostTypes
        <5>2. CASE x # s BY <1>1, <2>3, <3>2, <4>1, <5>2 DEF HostTypes
        <5> QED BY <5>1, <5>2
      <4> QED BY <2>5, <4>2
    <3> QED BY <2>4, <3>1, <3>2
  <2>9. SwitchFits' BY <1>3, <2>1, <2>3, <2>5, <2>8 DEF SwitchFits
  <2> QED BY <1>2, <2>5, <2>7, <2>9, SwitchGoes
<1>12. CASE Commit
  <2>1. /\ cmd.pc = "commit" /\ Elements(cmd.done) \cup Elements(cmd.todo) = Wanted(cmd.op = "rotate", cmd.stores)
        /\ cmd.staged = KeyOf(Wanted(cmd.op = "rotate", cmd.stores))
        /\ \A s \in Stores : stores[s] = IF s \in Elements(cmd.done) THEN cmd.key ELSE cmd.stores[s]
    BY <1>3, <1>12 DEF Commit, At, SwitchFits
  <2>2. CASE cmd.todo # <<>> /\ Goto("undo") /\ UNCHANGED stores
    <3>1. /\ DOMAIN cmd' = DOMAIN cmd /\ cmd'.pc = "undo" /\ cmd'.stores = cmd.stores /\ cmd'.op = cmd.op
          /\ cmd'.key = cmd.key /\ cmd'.later = cmd.later /\ cmd'.todo = cmd.todo
          /\ cmd'.done = cmd.done /\ cmd'.staged = cmd.staged
          /\ cmd'.saved = cmd.saved /\ cmd'.torn = cmd.torn /\ cmd'.here = cmd.here
      BY <1>1, <2>2 DEF Goto
    <3>2. HostTypes' BY <1>1, <1>2, <2>2, <3>1 DEF HostTypes
    <3>3. SwitchFits' BY <1>3, <2>1, <2>2, <3>1 DEF SwitchFits
    <3> QED BY <1>2, <1>6, <3>1, <3>2, <3>3, SwitchGoes
  <2>3. CASE /\ cmd.todo # <<>>
             /\ stores' = [stores EXCEPT ![Head(cmd.todo)] = cmd.staged[Head(cmd.todo)]]
             /\ cmd' = [cmd EXCEPT !.pc = "undo", !.torn = TRUE]
    <3>1. /\ DOMAIN cmd' = DOMAIN cmd /\ cmd'.pc = "undo" /\ cmd'.stores = cmd.stores /\ cmd'.op = cmd.op
          /\ cmd'.key = cmd.key /\ cmd'.later = cmd.later /\ cmd'.todo = cmd.todo
          /\ cmd'.done = cmd.done /\ cmd'.staged = cmd.staged
          /\ cmd'.saved = cmd.saved /\ cmd'.torn = TRUE /\ cmd'.here = cmd.here
      BY <1>1, <2>3
    <3>2. Head(cmd.todo) \in Stores BY <1>3, <2>3, ElementsOf
    <3>3. stores' \in [Stores -> AllKeys] BY <1>1, <2>3, <3>2 DEF HostTypes
    <3>4. HostTypes' BY <1>1, <1>2, <3>1, <3>3 DEF HostTypes
    <3>5. SwitchFits' BY <1>3, <3>1 DEF SwitchFits
    <3> QED BY <1>2, <1>6, <3>1, <3>4, <3>5, SwitchGoes
  <2>4. CASE /\ cmd.todo # <<>>
             /\ stores' = [stores EXCEPT ![Head(cmd.todo)] = cmd.staged[Head(cmd.todo)]]
             /\ cmd' = [cmd EXCEPT !.todo = Tail(@), !.done = Append(@, Head(cmd.todo))]
    <3>1. PICK s : s = Head(cmd.todo) OBVIOUS
    <3>2. /\ DOMAIN cmd' = DOMAIN cmd /\ cmd'.pc = cmd.pc /\ cmd'.stores = cmd.stores /\ cmd'.op = cmd.op
          /\ cmd'.key = cmd.key /\ cmd'.later = cmd.later /\ cmd'.todo = Tail(cmd.todo)
          /\ cmd'.done = Append(cmd.done, s) /\ cmd'.staged = cmd.staged
          /\ cmd'.saved = cmd.saved /\ cmd'.torn = cmd.torn /\ cmd'.here = cmd.here
      BY <1>1, <2>4, <3>1
    <3>3. /\ s \in Stores /\ cmd'.todo \in Seq(Stores) /\ cmd'.done \in Seq(Stores)
          /\ Elements(cmd.todo) = {s} \cup Elements(cmd'.todo)
          /\ Elements(cmd'.done) = Elements(cmd.done) \cup {s}
      BY <1>3, <2>4, <3>1, <3>2, ElementsOf
    <3>4. cmd.staged[s] = cmd.key BY <2>1, <3>3 DEF KeyOf
    <3>5. stores' = [stores EXCEPT ![s] = cmd.key] BY <2>4, <3>1, <3>4
    <3>6. stores' \in [Stores -> AllKeys] BY <1>1, <1>3, <3>3, <3>5 DEF HostTypes, AllKeys
    <3>7. HostTypes' BY <1>1, <1>2, <3>2, <3>6 DEF HostTypes
    <3>8. Wanted(cmd.op = "rotate", cmd.stores)' = Wanted(cmd.op = "rotate", cmd.stores) BY <1>2, <3>2 DEF Wanted, Known
    <3>9. cmd'.staged = KeyOf(Wanted(cmd.op = "rotate", cmd.stores))' BY <2>1, <3>2, <3>8 DEF KeyOf
    <3>10. Elements(cmd'.done) \cup Elements(cmd'.todo) = Wanted(cmd.op = "rotate", cmd.stores)'
      BY <2>1, <3>3, <3>8
    <3>11. ASSUME NEW x \in Stores
           PROVE  stores'[x] = IF x \in Elements(cmd'.done) THEN cmd'.key ELSE cmd'.stores[x]
      <4>1. CASE x = s BY <1>1, <3>2, <3>3, <3>5, <4>1 DEF HostTypes
      <4>2. CASE x # s
        <5>1. stores'[x] = stores[x] BY <1>1, <3>5, <4>2 DEF HostTypes
        <5> QED BY <2>1, <3>2, <3>3, <4>2, <5>1
      <4> QED BY <4>1, <4>2
    <3>12. SwitchFits' BY <1>3, <2>1, <3>2, <3>3, <3>9, <3>10, <3>11 DEF SwitchFits
    <3> QED BY <1>2, <3>2, <3>7, <3>12, SwitchGoes
  <2>5. CASE /\ cmd.todo = <<>> /\ UNCHANGED stores
             /\ cmd' = [cmd EXCEPT !.staged = NoKeys, !.saved = TRUE, !.todo = cmd.later,
                        !.pc = CASE cmd.op = "rotate" -> "reload" [] cmd.op = "resolve" -> "ok"
                                 [] OTHER -> "integrate"]
    <3>1. PICK pc : pc = CASE cmd.op = "rotate" -> "reload" [] cmd.op = "resolve" -> "ok"
                           [] OTHER -> "integrate"
      OBVIOUS
    <3>2. cmd.op \in KeyOps BY <1>2 DEF KeyInvariant, OpFits
    <3>3. /\ cmd.op = "rotate" => pc = "reload"
          /\ cmd.op = "resolve" => pc = "ok"
          /\ cmd.op = "bundle" => pc = "integrate"
      BY <3>1
    <3>4. /\ DOMAIN cmd' = DOMAIN cmd /\ cmd'.pc = pc /\ cmd'.stores = cmd.stores /\ cmd'.op = cmd.op
          /\ cmd'.key = cmd.key /\ cmd'.todo = cmd.later /\ cmd'.staged = NoKeys
          /\ cmd'.saved = TRUE /\ cmd'.torn = cmd.torn /\ cmd'.here = cmd.here
      BY <1>1, <2>5, <3>1
    <3>5. HostTypes' BY <1>1, <1>2, <1>4, <2>5, <3>4 DEF HostTypes
    <3>6. pc \in {"reload", "ok", "integrate"} BY <3>2, <3>3 DEF KeyOps
    <3>7. pc \notin Switching /\ pc \notin Later BY <3>6 DEF Switching, Later, Updating
    <3>8. OpFits' BY <3>2, <3>3, <3>4, <3>7 DEF OpFits, KeyOps
    <3>9. Elements(cmd.todo) = {} BY <1>3, <2>5, ElementsOf
    <3>10. \A s \in Stores : s \in Wanted(cmd.op = "rotate", cmd.stores) => stores[s] = cmd.key
      BY <2>1, <3>9
    <3>11. SavedEverywhere
      <4>1. "dsh" \in Stores /\ "tencent" \in Stores /\ "strix" \in Stores BY DEF Stores
      <4>2. "tencent" \notin Wanted(cmd.op = "rotate", cmd.stores) => stores["tencent"] = cmd.stores["tencent"]
        BY <2>1, <4>1
      <4> QED BY <3>10, <4>1, <4>2 DEF SavedEverywhere, Wanted
    <3>12. SavedEverywhere' BY <1>2, <2>5, <3>4, <3>11, SavedStays
    <3>13. ASSUME cmd.op = "bundle" PROVE BundleFits'
      <4>1. PICK plan : plan = Bundle(cmd.here) OBVIOUS
      <4>2. AtStep(cmd.later, plan, 4) /\ Made(plan[1]) /\ Made(plan[2])
        BY <1>2, <3>13, <4>1 DEF KeyInvariant, BundleFits
      <4>3. Grows BY <1>2, <3>4 DEF Grows
      <4>4. Made(plan[1])' /\ Made(plan[2])' BY <4>2, <4>3, MadeStays
      <4>5. plan[3] = "key" /\ Len(plan) \in {17, 20} BY <1>1, <4>1, BundleIs DEF HostTypes
      <4>6. Made(plan[3])' BY <3>4, <4>5 DEF Made, Parts, Listable, Receipts, Names
      <4>7. \A j \in 1..(4 - 1) : j = 1 \/ j = 2 \/ j = 3 OBVIOUS
      <4>8. Reached(plan, 4)' BY <4>4, <4>6, <4>7 DEF Reached
      <4>9. 4 \in 1..(Len(plan) + 1) BY <4>5
      <4>10. AtStep(cmd'.todo, plan, 4) /\ plan = Bundle(cmd'.here) BY <3>4, <4>1, <4>2
      <4>11. pc = "integrate" BY <3>3, <3>13
      <4> QED BY <3>4, <3>7, <4>8, <4>9, <4>10, <4>11 DEF BundleFits
    <3> QED BY <3>4, <3>5, <3>6, <3>7, <3>8, <3>12, <3>13 DEF KeyInvariant
  <2> QED BY <1>12, <2>2, <2>3, <2>4, <2>5 DEF Commit
<1> QED BY <1>8, <1>9, <1>10, <1>11, <1>12

(* How each command begins. *)
LEMMA BeginsTyped ==
    ASSUME KeyInvariant, NEW op, NEW record, Begin(op, record), DOMAIN record = DOMAIN Idle,
           record.staged = NoKeys, {record.saved, record.torn, record.here} \subseteq BOOLEAN
    PROVE  /\ HostTypes' /\ UNCHANGED <<parts, listed, stores>> /\ cmd'.op = op /\ cmd'.stores = stores
           /\ \A x \in DOMAIN Idle \ {"op", "stores"} : cmd'[x] = record[x]
<1>1. {"op", "stores", "saved", "torn", "here", "staged"} \subseteq DOMAIN Idle BY DEF Idle
<1>2. cmd' = [record EXCEPT !.op = op, !.stores = stores] /\ UNCHANGED <<parts, listed, stores>>
  BY DEF Begin, host
<1>3. /\ DOMAIN cmd' = DOMAIN Idle /\ cmd'.op = op /\ cmd'.stores = stores
      /\ \A x \in DOMAIN Idle \ {"op", "stores"} : cmd'[x] = record[x]
  BY <1>1, <1>2
<1>4. /\ cmd'.saved = record.saved /\ cmd'.torn = record.torn /\ cmd'.here = record.here
      /\ cmd'.staged = record.staged
  BY <1>1, <1>3
<1>5. NoKeys \in [Stores -> AllKeys] BY DEF NoKeys, AllKeys
<1>6. HostTypes' BY <1>2, <1>3, <1>4, <1>5 DEF KeyInvariant, HostTypes
<1> QED BY <1>2, <1>3, <1>6

LEMMA BeginsOther ==
    ASSUME KeyInvariant, BeginUpdate \/ BeginPermissions \/ BeginUninstall
    PROVE  KeyInvariant'
<1>1. ASSUME NEW op, NEW record, Begin(op, record), DOMAIN record = DOMAIN Idle,
             record.staged = NoKeys, record.saved = FALSE, record.torn = FALSE, record.here = FALSE,
             op \notin KeyOps,
             \/ record.pc = "latest" /\ op \in {"update", "install"}
             \/ record.pc \in {"record", "disable", "remove"}
      PROVE  KeyInvariant'
  <2>1. "pc" \in DOMAIN Idle \ {"op", "stores"} BY DEF Idle
  <2>2. HostTypes' /\ cmd'.op = op /\ cmd'.pc = record.pc BY <1>1, <2>1, BeginsTyped
  <2>3. OpFits' BY <1>1, <2>2 DEF OpFits, Switching, Later, Updating
  <2> QED BY <1>1, <2>2, <2>3, OtherOps
<1>2. CASE BeginUpdate
  <2>1. PICK op \in {"update", "install"} : Begin(op, [Idle EXCEPT !.pc = "latest"])
    BY <1>2 DEF BeginUpdate
  <2> DEFINE r == [Idle EXCEPT !.pc = "latest"]
  <2>2. /\ DOMAIN r = DOMAIN Idle /\ r.pc = "latest" /\ r.staged = NoKeys /\ r.saved = FALSE
        /\ r.torn = FALSE /\ r.here = FALSE
    BY DEF Idle
  <2>3. Begin(op, r) /\ op \notin KeyOps BY <2>1 DEF KeyOps
  <2> HIDE DEF r
  <2> QED BY <1>1, <2>2, <2>3
<1>3. CASE BeginPermissions
  <2> DEFINE e == [Idle EXCEPT !.pc = "record", !.todo = <<"dsh", "codex">>]
             d == [Idle EXCEPT !.pc = "disable", !.todo = <<"dsh", "codex">>]
  <2>1. /\ DOMAIN e = DOMAIN Idle /\ e.pc = "record" /\ e.staged = NoKeys /\ e.saved = FALSE
        /\ e.torn = FALSE /\ e.here = FALSE
        /\ DOMAIN d = DOMAIN Idle /\ d.pc = "disable" /\ d.staged = NoKeys /\ d.saved = FALSE
        /\ d.torn = FALSE /\ d.here = FALSE
    BY DEF Idle
  <2>2. Begin("enable", e) \/ Begin("disable", d) BY <1>3 DEF BeginPermissions
  <2>3. "enable" \notin KeyOps /\ "disable" \notin KeyOps BY DEF KeyOps
  <2> HIDE DEF e, d
  <2> QED BY <1>1, <2>1, <2>2, <2>3
<1>4. CASE BeginUninstall
  <2>1. PICK purge, here \in BOOLEAN :
         Begin("uninstall", [Idle EXCEPT
            !.pc = "remove", !.purge = purge, !.whole = Complete,
            !.again = Complete \/ (cmd.op = "uninstall" /\ cmd.again),
            !.todo = Chosen(Order, {step \in RemovalSteps : Covers(step, purge, here)})])
    BY <1>4 DEF BeginUninstall
  <2>2. PICK whole, again, todo :
                           /\ whole = Complete
                           /\ again = (Complete \/ (cmd.op = "uninstall" /\ cmd.again))
                           /\ todo = Chosen(Order, {step \in RemovalSteps : Covers(step, purge, here)})
    OBVIOUS
  <2> DEFINE r == [Idle EXCEPT !.pc = "remove", !.purge = purge, !.whole = whole, !.again = again,
                               !.todo = todo]
  <2>3. /\ DOMAIN r = DOMAIN Idle /\ r.pc = "remove" /\ r.staged = NoKeys /\ r.saved = FALSE
        /\ r.torn = FALSE /\ r.here = FALSE
    BY DEF Idle
  <2>4. Begin("uninstall", r) /\ "uninstall" \notin KeyOps BY <2>1, <2>2 DEF KeyOps
  <2> HIDE DEF r
  <2> QED BY <1>1, <2>3, <2>4
<1> QED BY <1>2, <1>3, <1>4

LEMMA BeginsKey ==
    ASSUME KeyInvariant, BeginRotate \/ BeginResolve
    PROVE  KeyInvariant'
<1>1. ASSUME NEW k \in Keys, NEW op, NEW all, Begin(op, Rotating(k, all)),
             op \in {"rotate", "resolve"}, all = (op = "rotate")
      PROVE  KeyInvariant'
  <2> DEFINE r == Rotating(k, all)
  <2>1. /\ DOMAIN r = DOMAIN Idle /\ r.pc = "stage" /\ r.key = k /\ r.todo = Targets(all) /\ r.done = <<>>
        /\ r.staged = NoKeys /\ r.saved = FALSE /\ r.torn = FALSE /\ r.here = FALSE
    BY DEF Rotating, Idle
  <2>2. Begin(op, r) BY <1>1
  <2> HIDE DEF r
  <2>3. {"pc", "key", "todo", "done", "staged", "saved", "torn", "here"} \subseteq DOMAIN Idle \ {"op", "stores"}
    BY DEF Idle
  <2>4. {r.saved, r.torn, r.here} \subseteq BOOLEAN BY <2>1
  <2>5. /\ HostTypes' /\ UNCHANGED <<parts, listed, stores>> /\ cmd'.op = op /\ cmd'.stores = stores
        /\ \A x \in DOMAIN Idle \ {"op", "stores"} : cmd'[x] = r[x]
    BY <2>1, <2>2, <2>4, BeginsTyped
  <2>6. /\ cmd'.pc = "stage" /\ cmd'.key = k /\ cmd'.todo = Targets(all) /\ cmd'.done = <<>>
        /\ cmd'.staged = NoKeys /\ cmd'.saved = FALSE
    BY <2>1, <2>3, <2>5
  <2>7. cmd'.todo \in Seq(Stores) /\ Elements(cmd'.todo) = Wanted(all, stores) BY <2>6, TargetsAre
  <2>8. Wanted(cmd.op = "rotate", cmd.stores)' = Wanted(all, stores) BY <1>1, <2>5 DEF Wanted, Known
  <2>9. <<>> \in Seq(Stores) /\ Elements(<<>>) = {} BY NoElements
  <2>10. cmd'.done \in Seq(Stores) /\ Elements(cmd'.done) = {} BY <2>6, <2>9
  <2>11. cmd'.staged = KeyOf(Elements(cmd.done))' BY <2>6, <2>10 DEF KeyOf, NoKeys
  <2>12. SwitchFits' BY <2>5, <2>6, <2>7, <2>8, <2>10, <2>11 DEF SwitchFits
  <2>13. OpFits' BY <1>1, <2>5, <2>6 DEF OpFits, Switching, Later, Updating, KeyOps
  <2>14. cmd'.op # "bundle" BY <1>1, <2>5
  <2> QED BY <2>5, <2>6, <2>12, <2>13, <2>14 DEF KeyInvariant
<1>2. CASE BeginRotate BY <1>1, <1>2 DEF BeginRotate
<1>3. CASE BeginResolve BY <1>1, <1>3 DEF BeginResolve
<1> QED BY <1>2, <1>3

LEMMA BeginsBundle == KeyInvariant /\ BeginBundle => KeyInvariant'
<1> SUFFICES ASSUME KeyInvariant, BeginBundle PROVE KeyInvariant'
  OBVIOUS
<1>1. PICK here \in BOOLEAN :
         Begin("bundle", [Idle EXCEPT !.pc = "integrate", !.todo = Bundle(here), !.here = here])
  BY DEF BeginBundle
<1>2. PICK plan : plan = Bundle(here) OBVIOUS
<1> DEFINE r == [Idle EXCEPT !.pc = "integrate", !.todo = plan, !.here = here]
<1>3. /\ DOMAIN r = DOMAIN Idle /\ r.pc = "integrate" /\ r.key = None /\ r.todo = plan
      /\ r.staged = NoKeys /\ r.saved = FALSE /\ r.torn = FALSE /\ r.here = here
  BY DEF Idle
<1>4. Begin("bundle", r) BY <1>1, <1>2
<1> HIDE DEF r
<1>5. {"pc", "key", "todo", "staged", "saved", "torn", "here"} \subseteq DOMAIN Idle \ {"op", "stores"}
  BY DEF Idle
<1>6. {r.saved, r.torn, r.here} \subseteq BOOLEAN BY <1>3
<1>7. /\ HostTypes' /\ UNCHANGED <<parts, listed, stores>> /\ cmd'.op = "bundle" /\ cmd'.stores = stores
      /\ \A x \in DOMAIN Idle \ {"op", "stores"} : cmd'[x] = r[x]
  BY <1>3, <1>4, <1>6, BeginsTyped
<1>8. /\ cmd'.pc = "integrate" /\ cmd'.key = None /\ cmd'.todo = plan
      /\ cmd'.saved = FALSE /\ cmd'.here = here /\ cmd'.staged = NoKeys
  BY <1>3, <1>5, <1>7
<1>9. OpFits' BY <1>7, <1>8 DEF OpFits, Switching, Later, Updating, KeyOps
<1>10. plan \in Seq(Elements(plan)) /\ Len(plan) \in {17, 20} BY <1>2, BundleIs
<1>11. AtStep(cmd'.todo, plan, 1)
  <2>1. \A j \in 1..Len(plan) : plan[j] = plan[1 - 1 + j] BY <1>10
  <2>2. Len(plan) = Len(plan) + 1 - 1 BY <1>10
  <2> QED BY <1>8, <1>10, <2>1, <2>2 DEF AtStep
<1>12. Reached(plan, 1)' BY <1>8 DEF Reached
<1>13. 1 \in 1..(Len(plan) + 1) BY <1>10
<1>14. BundleFits' BY <1>2, <1>8, <1>11, <1>12, <1>13 DEF BundleFits, Switching, Later, Updating
<1> QED BY <1>7, <1>8, <1>9, <1>14 DEF KeyInvariant, Switching

(* The steps of the bundle. *)
LEMMA AtStepNext ==
    ASSUME NEW plan, plan \in Seq(Elements(plan)), NEW i \in 1..(Len(plan) + 1), NEW todo, AtStep(todo, plan, i)
    PROVE  /\ todo = <<>> => i = Len(plan) + 1
           /\ todo # <<>> => i \in 1..Len(plan) /\ Head(todo) = plan[i] /\ AtStep(Tail(todo), plan, i + 1)
           /\ i + 2 <= Len(plan) => AtStep(SubSeq(todo, 4, Len(todo)), plan, i + 3)
<1>1. /\ todo \in Seq(Elements(plan)) /\ Len(todo) = Len(plan) + 1 - i
      /\ \A j \in 1..Len(todo) : todo[j] = plan[i - 1 + j]
  BY DEF AtStep
<1>2. Len(plan) \in Nat /\ Len(todo) \in Nat OBVIOUS
<1>3. todo = <<>> => i = Len(plan) + 1
  <2>1. todo = <<>> => Len(todo) = 0 OBVIOUS
  <2> QED BY <1>1, <1>2, <2>1
<1>4. ASSUME todo # <<>>
      PROVE  i \in 1..Len(plan) /\ Head(todo) = plan[i] /\ AtStep(Tail(todo), plan, i + 1)
  <2>1. Len(todo) >= 1 /\ Head(todo) = todo[1] BY <1>1, <1>2, <1>4
  <2>2. i \in 1..Len(plan) /\ i - 1 + 1 = i /\ 1 \in 1..Len(todo) BY <1>1, <1>2, <2>1
  <2>3. Head(todo) = plan[i] BY <1>1, <2>1, <2>2
  <2>4. PICK rest : rest = Tail(todo) OBVIOUS
  <2>5. rest \in Seq(Elements(plan)) /\ Len(rest) = Len(todo) - 1
        /\ \A j \in 1..Len(rest) : rest[j] = todo[j + 1]
    BY <1>1, <1>4, <2>1, <2>4
  <2>6. ASSUME NEW j \in 1..Len(rest) PROVE rest[j] = plan[(i + 1) - 1 + j]
    <3>1. j + 1 \in 1..Len(todo) /\ i - 1 + (j + 1) = (i + 1) - 1 + j BY <1>2, <2>2, <2>5
    <3> QED BY <1>1, <2>5, <3>1
  <2>7. Len(rest) = Len(plan) + 1 - (i + 1) BY <1>1, <1>2, <2>2, <2>5
  <2>8. AtStep(rest, plan, i + 1) BY <2>5, <2>6, <2>7 DEF AtStep
  <2> QED BY <2>2, <2>3, <2>4, <2>8
<1>5. ASSUME i + 2 <= Len(plan) PROVE AtStep(SubSeq(todo, 4, Len(todo)), plan, i + 3)
  <2>1. Len(todo) >= 3 BY <1>1, <1>2, <1>5
  <2>2. PICK rest : rest = SubSeq(todo, 4, Len(todo)) OBVIOUS
  <2>3. /\ rest \in Seq(Elements(plan)) /\ Len(rest) = Len(todo) - 3
        /\ \A j \in 1..Len(rest) : rest[j] = todo[j + 3]
    BY <1>1, <1>2, <2>1, <2>2
  <2>4. ASSUME NEW j \in 1..Len(rest) PROVE rest[j] = plan[(i + 3) - 1 + j]
    <3>1. j + 3 \in 1..Len(todo) /\ i - 1 + (j + 3) = (i + 3) - 1 + j BY <1>2, <2>1, <2>3
    <3> QED BY <1>1, <2>3, <3>1
  <2>5. Len(rest) = Len(plan) + 1 - (i + 3) BY <1>1, <1>2, <1>5, <2>3
  <2>6. AtStep(rest, plan, i + 3) BY <2>3, <2>4, <2>5 DEF AtStep
  <2> QED BY <2>2, <2>6
<1> QED BY <1>3, <1>4, <1>5

Stepping(plan, i) ==
    /\ plan = Bundle(cmd.here) /\ plan \in Seq(Elements(plan)) /\ Len(plan) \in {17, 20}
    /\ i \in 1..(Len(plan) + 1) /\ AtStep(cmd.todo, plan, i) /\ Reached(plan, i)
    /\ cmd.saved <=> i > 3
    /\ cmd.saved => SavedEverywhere

LEMMA SteppingAt ==
    ASSUME KeyInvariant, cmd.pc = "integrate"
    PROVE  cmd.op = "bundle" /\ \E plan, i : Stepping(plan, i)
<1>1. cmd.op = "bundle" /\ cmd.here \in BOOLEAN /\ cmd.op \in KeyOps
  BY DEF KeyInvariant, OpFits, HostTypes, KeyOps
<1>2. PICK plan : plan = Bundle(cmd.here) OBVIOUS
<1>3. plan \in Seq(Elements(plan)) /\ Len(plan) \in {17, 20} /\ plan[3] = "key" BY <1>1, <1>2, BundleIs
<1>4. PICK i \in 1..(Len(plan) + 1) : AtStep(cmd.todo, plan, i) /\ Reached(plan, i)
  BY <1>1, <1>2 DEF KeyInvariant, BundleFits
<1>5. cmd.saved <=> i > 3
  <2>1. CASE i <= 3 BY <1>3, <1>4, <2>1 DEF Reached
  <2>2. CASE i > 3
    <3>1. 3 \in 1..(i - 1) BY <1>3, <1>4, <2>2
    <3> QED BY <1>3, <1>4, <2>2, <3>1 DEF Reached, Made
  <2> QED BY <1>3, <1>4, <2>1, <2>2
<1>6. cmd.saved => SavedEverywhere BY <1>1 DEF KeyInvariant
<1> QED BY <1>1, <1>2, <1>3, <1>4, <1>5, <1>6 DEF Stepping

LEMMA BundleGoes ==
    ASSUME KeyInvariant, cmd.pc = "integrate", NEW plan, NEW i, Stepping(plan, i),
           NEW m \in 1..(Len(plan) + 1), NEW todo, AtStep(todo, plan, m), cmd' = [cmd EXCEPT !.todo = todo],
           i # 3, m > i, m > 3 => i > 3, Grows, HostTypes',
           \A j \in i..(m - 1) : Made(plan[j])',
           cmd.saved => SavedEverywhere'
    PROVE  KeyInvariant'
<1>1. DOMAIN cmd = DOMAIN Idle /\ {"pc", "op", "key", "here", "todo", "saved", "staged"} \subseteq DOMAIN Idle
  BY DEF KeyInvariant, HostTypes, Idle
<1>2. /\ cmd'.pc = "integrate" /\ cmd'.op = cmd.op /\ cmd'.key = cmd.key /\ cmd'.here = cmd.here
      /\ cmd'.todo = todo /\ cmd'.saved = cmd.saved /\ cmd'.staged = cmd.staged
  BY <1>1
<1>3. "integrate" \notin Switching /\ "integrate" \notin Later BY DEF Switching, Later, Updating
<1>4. OpFits' BY <1>2, <1>3 DEF KeyInvariant, OpFits
<1>5. Len(plan) \in {17, 20} /\ i \in 1..(Len(plan) + 1) /\ Reached(plan, i) /\ plan = Bundle(cmd.here)
  BY DEF Stepping
<1>6. Reached(plan, i)' BY <1>2, <1>5, ReachedStays
<1>7. Reached(plan, m)'
  <2>1. ASSUME NEW j \in 1..(m - 1) PROVE Made(plan[j])'
    <3>1. j \in 1..(i - 1) \/ j \in i..(m - 1) BY <1>5
    <3> QED BY <1>6, <3>1 DEF Reached
  <2>2. m <= 3 => i <= 3 BY <1>5
  <2> QED BY <1>6, <2>1, <2>2 DEF Reached
<1>8. BundleFits'
  <2>1. plan = Bundle(cmd'.here) /\ AtStep(cmd'.todo, plan, m) BY <1>2, <1>5
  <2> QED BY <1>2, <1>3, <1>7, <2>1 DEF BundleFits
<1> QED BY <1>2, <1>3, <1>4, <1>8 DEF KeyInvariant

LEMMA BundleFails ==
    ASSUME KeyInvariant, cmd.pc = "integrate", Goto("failed"),
           parts' \in [Parts -> {"whole", "partial", "gone"}], stores' = stores,
           UNCHANGED listed, parts'["global"] = parts["global"]
    PROVE  KeyInvariant'
<1>1. /\ DOMAIN cmd = DOMAIN Idle /\ HostTypes
      /\ {"pc", "op", "key", "here", "saved", "torn", "staged", "stores"} \subseteq DOMAIN Idle
  BY DEF KeyInvariant, HostTypes, Idle
<1>2. /\ cmd'.pc = "failed" /\ cmd'.op = cmd.op /\ cmd'.key = cmd.key /\ cmd'.here = cmd.here
      /\ cmd'.saved = cmd.saved /\ cmd'.staged = cmd.staged /\ cmd'.stores = cmd.stores
      /\ cmd'.torn = cmd.torn /\ DOMAIN cmd' = DOMAIN cmd
  BY <1>1 DEF Goto
<1>3. "failed" \notin Switching /\ "failed" \notin Later BY DEF Switching, Later, Updating
<1>4. HostTypes' BY <1>1, <1>2 DEF HostTypes
<1>5. OpFits' BY <1>2, <1>3 DEF OpFits
<1>6. BundleFits' BY <1>2, <1>3 DEF BundleFits
<1>7. cmd.op = "bundle" /\ \E plan, i : Stepping(plan, i) BY SteppingAt
<1>8. PICK plan, i : Stepping(plan, i) BY <1>7
<1>9. cmd.saved \/ cmd.key = None
  <2>1. i \in 1..(Len(plan) + 1) /\ Len(plan) \in Nat /\ (cmd.saved <=> i > 3) /\ Reached(plan, i)
    BY <1>8 DEF Stepping
  <2> QED BY <2>1 DEF Reached
<1>10. cmd.saved => SavedEverywhere'
  <2>1. cmd.saved => SavedEverywhere BY <1>8 DEF Stepping
  <2>2. cmd.op # "rotate" BY <1>7
  <2> QED BY <1>2, <2>1, <2>2 DEF SavedEverywhere, Known
<1> QED BY <1>2, <1>3, <1>4, <1>5, <1>6, <1>9, <1>10 DEF KeyInvariant

(* The step a bundle is at, and the way on from it. *)
LEMMA SteppingOn ==
    ASSUME KeyInvariant, cmd.pc = "integrate", cmd.todo # <<>>
    PROVE  \E plan, i :
              /\ Stepping(plan, i) /\ i \in 1..Len(plan) /\ Len(plan) \in {17, 20}
              /\ Head(cmd.todo) = plan[i] /\ AtStep(Tail(cmd.todo), plan, i + 1)
              /\ plan[i] = "key" <=> i = 3
              /\ plan[i] \in {"runtime", "saveRuntime"} => i < 3
              /\ plan[i] = "checkout" =>
                    /\ i = 13 /\ plan[14] = "containers" /\ plan[15] = "manifest"
                    /\ AtStep(SubSeq(cmd.todo, 4, Len(cmd.todo)), plan, 16)
<1>1. PICK plan, i : Stepping(plan, i) BY SteppingAt
<1>2. /\ plan \in Seq(Elements(plan)) /\ Len(plan) \in {17, 20} /\ i \in 1..(Len(plan) + 1)
      /\ AtStep(cmd.todo, plan, i) /\ plan = Bundle(cmd.here)
  BY <1>1 DEF Stepping
<1>3. i \in 1..Len(plan) /\ Head(cmd.todo) = plan[i] /\ AtStep(Tail(cmd.todo), plan, i + 1)
  BY <1>2, AtStepNext
<1>4. cmd.here \in BOOLEAN BY DEF KeyInvariant, HostTypes
<1>5. /\ plan[1] = "runtime" /\ plan[2] = "saveRuntime" /\ plan[3] = "key"
      /\ plan[14] = "containers" /\ plan[15] = "manifest"
      /\ \A j \in 4..Len(plan) : plan[j] \notin {"runtime", "saveRuntime", "key"}
      /\ \A j \in 1..Len(plan) : plan[j] = "checkout" => j = 13
  BY <1>2, <1>4, BundleIs
<1>6. i = 1 \/ i = 2 \/ i = 3 \/ i \in 4..Len(plan) BY <1>2, <1>3
<1>7. plan[i] = "key" <=> i = 3 BY <1>5, <1>6
<1>8. plan[i] \in {"runtime", "saveRuntime"} => i < 3 BY <1>5, <1>6
<1>9. ASSUME plan[i] = "checkout" PROVE i = 13 /\ AtStep(SubSeq(cmd.todo, 4, Len(cmd.todo)), plan, 16)
  <2>1. i = 13 BY <1>3, <1>5, <1>9
  <2>0. Len(plan) = 17 \/ Len(plan) = 20 BY <1>2
  <2>2. 13 + 2 <= Len(plan) /\ 13 + 3 = 16
    <3>1. PICK n : n = Len(plan) OBVIOUS
    <3>2. n = 17 \/ n = 20 BY <2>0, <3>1
    <3>3. 13 + 2 <= n BY <3>2
    <3> QED BY <3>1, <3>3
  <2>3. /\ plan \in Seq(Elements(plan)) /\ 13 \in 1..(Len(plan) + 1) /\ AtStep(cmd.todo, plan, 13)
    BY <1>2, <2>1
  <2>4. AtStep(SubSeq(cmd.todo, 4, Len(cmd.todo)), plan, 13 + 3) BY <2>2, <2>3, AtStepNext
  <2> QED BY <2>1, <2>2, <2>4
<1> QED BY <1>1, <1>2, <1>3, <1>5, <1>7, <1>8, <1>9

(* One step of it is done. *)
LEMMA BundleDoes ==
    ASSUME KeyInvariant, cmd.pc = "integrate", cmd.todo # <<>>, cmd' = Stepped,
           NEW step, step = Head(cmd.todo), step # "key",
           parts' \in [Parts -> {"whole", "partial", "gone"}], stores' \in [Stores -> AllKeys],
           Grows, Made(step)', cmd.saved => SavedEverywhere'
    PROVE  KeyInvariant'
<1>1. PICK plan, i :
              /\ Stepping(plan, i) /\ i \in 1..Len(plan) /\ Len(plan) \in {17, 20}
              /\ Head(cmd.todo) = plan[i] /\ AtStep(Tail(cmd.todo), plan, i + 1)
              /\ plan[i] = "key" <=> i = 3
  BY SteppingOn
<1>2. DOMAIN cmd = DOMAIN Idle /\ HostTypes
      /\ {"pc", "op", "key", "here", "todo", "saved", "torn", "staged", "stores"} \subseteq DOMAIN Idle
  BY DEF KeyInvariant, HostTypes, Idle
<1>3. cmd' = [cmd EXCEPT !.todo = Tail(cmd.todo)] BY DEF Stepped
<1>4. /\ DOMAIN cmd' = DOMAIN cmd /\ cmd'.saved = cmd.saved /\ cmd'.torn = cmd.torn /\ cmd'.here = cmd.here
      /\ cmd'.staged = cmd.staged /\ cmd'.stores = cmd.stores
  BY <1>2, <1>3
<1>5. HostTypes' BY <1>2, <1>4 DEF HostTypes
<1>6. i + 1 \in 1..(Len(plan) + 1) /\ i + 1 > i BY <1>1
<1>7. \A j \in i..(i + 1 - 1) : Made(plan[j])'
  <2>1. \A j \in i..(i + 1 - 1) : j = i BY <1>1
  <2>2. step = plan[i] BY <1>1
  <2> QED BY <2>1, <2>2
<1>8. i # 3
  <2>1. plan[i] = step /\ step # "key" BY <1>1
  <2> QED BY <1>1, <2>1
<1>9. i \in Nat BY <1>1
<1>10. i + 1 > 3 => i > 3 BY <1>8, <1>9
<1>11. PICK m : m = i + 1 OBVIOUS
<1>12. AtStep(Tail(cmd.todo), plan, m) /\ m \in 1..(Len(plan) + 1) /\ m > i /\ (m > 3 => i > 3)
       /\ \A j \in i..(m - 1) : Made(plan[j])'
  BY <1>1, <1>6, <1>7, <1>10, <1>11
<1>13. PICK todo : todo = Tail(cmd.todo) OBVIOUS
<1>14. AtStep(todo, plan, m) /\ cmd' = [cmd EXCEPT !.todo = todo] BY <1>3, <1>12, <1>13
<1>15. Stepping(plan, i) BY <1>1
<1> QED BY <1>5, <1>8, <1>12, <1>14, <1>15, BundleGoes

(* The steps that write one part. *)
Written == {"runtime", "dsh", "patch", "baseline", "codex", "hooks", "containers", "project", "gitignore"}
               \cup Receipts

LEMMA WrittenNames ==
    ASSUME NEW x \in Written
    PROVE  x \in Parts \ {"tencent", "global"} /\ x # "key" /\ Names(x) = {}
<1>1. x \in Parts \ {"tencent", "global"} /\ x # "key" BY DEF Written, Parts, Listable, Receipts
<1>2. x \notin {"saveRuntime", "saveDSH", "saveCodex", "saveTencent", "saveProject"}
  BY DEF Written, Receipts
<1> QED BY <1>1, <1>2 DEF Names

LEMMA BundlePuts ==
    ASSUME KeyInvariant, NEW x \in Written, Integrating(x), Put(x)
    PROVE  KeyInvariant'
<1>1. cmd.pc = "integrate" /\ cmd.todo # <<>> /\ Head(cmd.todo) = x BY DEF Integrating, At, Step
<1>2. x \in Parts \ {"tencent", "global"} /\ x # "key" /\ Names(x) = {} BY WrittenNames
<1>3. HostTypes BY DEF KeyInvariant
<1>4. "global" \in Parts /\ parts \in [Parts -> {"whole", "partial", "gone"}] BY <1>3 DEF HostTypes, Parts
<1>5. UNCHANGED <<listed, stores>> BY DEF Put
<1>6. CASE parts' = [parts EXCEPT ![x] = "whole"] /\ cmd' = Stepped
  <2>1. parts' \in [Parts -> {"whole", "partial", "gone"}] BY <1>2, <1>4, <1>6
  <2>2. /\ parts'[x] = "whole" /\ parts'["global"] = parts["global"]
        /\ \A y \in Parts : parts[y] = "whole" => parts'[y] = "whole"
    BY <1>2, <1>4, <1>6
  <2>3. /\ DOMAIN cmd = DOMAIN Idle /\ {"todo", "saved", "op", "key"} \subseteq DOMAIN Idle
    BY <1>3 DEF HostTypes, Idle
  <2>4. cmd'.saved = cmd.saved /\ cmd'.op = cmd.op /\ cmd'.key = cmd.key BY <1>6, <2>3 DEF Stepped
  <2>5. Grows BY <1>5, <2>2, <2>4 DEF Grows
  <2>6. Names(x)' = {}
    <3>1. Names(x)' = Names(x) BY DEF Names
    <3> QED BY <1>2, <3>1
  <2>7. Made(x)' BY <1>2, <2>2, <2>6 DEF Made
  <2>8. ASSUME cmd.saved PROVE SavedEverywhere'
    <3>1. SavedEverywhere /\ cmd.op # "rotate"
      <4>1. cmd.op = "bundle" /\ \E plan, i : Stepping(plan, i) BY <1>1, SteppingAt
      <4>2. PICK plan, i : Stepping(plan, i) BY <4>1
      <4> QED BY <2>8, <4>1, <4>2 DEF Stepping
    <3> QED BY <1>5, <2>2, <2>4, <3>1 DEF SavedEverywhere, Known
  <2>9. stores' \in [Stores -> AllKeys] BY <1>3, <1>5 DEF HostTypes
  <2> QED BY <1>1, <1>2, <1>3, <1>5, <1>6, <2>1, <2>5, <2>7, <2>8, <2>9, BundleDoes
<1>7. CASE Goto("failed") /\ parts' \in {parts} \cup (IF x \in {"dsh", "codex", "project"} /\ parts[x] = "gone"
                                       THEN {[parts EXCEPT ![x] = "partial"]} ELSE {})
  <2>1. parts' \in [Parts -> {"whole", "partial", "gone"}] /\ parts'["global"] = parts["global"]
    BY <1>2, <1>4, <1>7
  <2> QED BY <1>1, <1>5, <1>7, <2>1, BundleFails
<1> QED BY <1>6, <1>7 DEF Put

LEMMA BundleSaves == KeyInvariant /\ SaveState => KeyInvariant'
<1> SUFFICES ASSUME KeyInvariant, SaveState PROVE KeyInvariant'
  OBVIOUS
<1>1. PICK step : step = Head(cmd.todo) OBVIOUS
<1>2. /\ cmd.pc = "integrate" /\ cmd.todo # <<>> /\ Names(step) # {} /\ UNCHANGED stores
  BY <1>1 DEF SaveState, At
<1>3. HostTypes BY DEF KeyInvariant
<1>4. "global" \in Parts /\ parts \in [Parts -> {"whole", "partial", "gone"}] BY <1>3 DEF HostTypes, Parts
<1>5. step \in {"saveRuntime", "saveDSH", "saveCodex", "saveTencent", "saveProject"} BY <1>2 DEF Names
<1>6. step \notin Parts /\ step # "key" BY <1>5 DEF Parts, Listable, Receipts
<1>7. CASE Goto("failed") /\ UNCHANGED <<parts, listed>> BY <1>2, <1>4, <1>7, BundleFails
<1>8. CASE SaveGlobal(Names(step)) /\ cmd' = Stepped
  <2>1. PICK names : names = Names(step) OBVIOUS
  <2>2. /\ parts' = [parts EXCEPT !["global"] = "whole"]
        /\ listed' = names \cup (IF parts["global"] = "whole" THEN listed ELSE {})
    BY <1>8, <2>1 DEF SaveGlobal
  <2>3. /\ parts' \in [Parts -> {"whole", "partial", "gone"}] /\ parts'["global"] = "whole"
        /\ \A y \in Parts : parts[y] = "whole" => parts'[y] = "whole"
    BY <1>4, <2>2
  <2>4. /\ DOMAIN cmd = DOMAIN Idle /\ {"todo", "saved", "op", "key"} \subseteq DOMAIN Idle
    BY <1>3 DEF HostTypes, Idle
  <2>5. cmd'.saved = cmd.saved /\ cmd'.op = cmd.op /\ cmd'.key = cmd.key BY <1>8, <2>4 DEF Stepped
  <2>6. Grows BY <2>2, <2>3, <2>5 DEF Grows
  <2>7. Made(step)'
    <3>1. Names(step)' = names BY <2>1 DEF Names
    <3> QED BY <1>6, <2>2, <2>3, <3>1 DEF Made
  <2>8. ASSUME cmd.saved PROVE SavedEverywhere'
    <3>1. PICK plan, i : Stepping(plan, i) /\ Head(cmd.todo) = plan[i]
                         /\ (plan[i] \in {"runtime", "saveRuntime"} => i < 3)
      BY <1>2, SteppingOn
    <3>2. cmd.op = "bundle" BY <1>2, SteppingAt
    <3>3. SavedEverywhere /\ i > 3 /\ i \in Int BY <2>8, <3>1 DEF Stepping
    <3>4. step # "saveRuntime" BY <1>1, <3>1, <3>3
    <3>5. "runtime" \notin names BY <1>5, <2>1, <3>4 DEF Names
    <3>6. Known("runtime")' => Known("runtime") BY <2>2, <3>5 DEF Known
    <3> QED BY <1>2, <2>5, <3>2, <3>3, <3>6 DEF SavedEverywhere
  <2>9. stores' \in [Stores -> AllKeys] BY <1>2, <1>3 DEF HostTypes
  <2> QED BY <1>1, <1>2, <1>6, <1>8, <2>3, <2>6, <2>7, <2>8, <2>9, BundleDoes
<1> QED BY <1>1, <1>7, <1>8 DEF SaveState

LEMMA BundleChecksOut ==
    ASSUME KeyInvariant, Healthy \/ Checkout \/ WriteManifest
    PROVE  KeyInvariant'
<1>1. HostTypes BY DEF KeyInvariant
<1>2. "global" \in Parts /\ "tencent" \in Parts /\ parts \in [Parts -> {"whole", "partial", "gone"}]
  BY <1>1 DEF HostTypes, Parts, Listable
<1>3. cmd.pc = "integrate" /\ cmd.todo # <<>> /\ UNCHANGED listed
  BY DEF Healthy, Checkout, WriteManifest, Integrating, At, Step, host
<1>4. DOMAIN cmd = DOMAIN Idle
      /\ {"pc", "op", "key", "here", "todo", "saved", "torn", "staged", "stores"} \subseteq DOMAIN Idle
  BY <1>1 DEF HostTypes, Idle
<1>5. "checkout" \notin Parts /\ "manifest" \notin Parts /\ "containers" \in Parts \ {"tencent"}
  BY DEF Parts, Listable, Receipts
<1>6. \A step \in {"checkout", "manifest", "containers"} : Names(step) = {} /\ Names(step)' = {} /\ step # "key"
  BY DEF Names
<1>7. cmd.op = "bundle" BY <1>3, SteppingAt
<1>8. \A plan, i : Stepping(plan, i) /\ cmd.saved => SavedEverywhere BY DEF Stepping
<1>9. PICK plan, i :
              /\ Stepping(plan, i) /\ i \in 1..Len(plan) /\ Len(plan) \in {17, 20}
              /\ Head(cmd.todo) = plan[i]
              /\ plan[i] = "checkout" =>
                    /\ i = 13 /\ plan[14] = "containers" /\ plan[15] = "manifest"
                    /\ AtStep(SubSeq(cmd.todo, 4, Len(cmd.todo)), plan, 16)
  BY <1>3, SteppingOn
<1>10. cmd.saved => SavedEverywhere BY <1>8, <1>9
(* Steps of Tencent's deployment leave the rest as it was. *)
<1>11. ASSUME NEW step \in {"checkout", "manifest"}, step = Head(cmd.todo), cmd' = Stepped,
              NEW state, parts' = [parts EXCEPT !["tencent"] = state], state \in {"whole", "partial", "gone"},
              stores' \in [Stores -> AllKeys], stores'["dsh"] = stores["dsh"], stores'["strix"] = stores["strix"]
       PROVE  KeyInvariant'
  <2>1. /\ parts' \in [Parts -> {"whole", "partial", "gone"}] /\ parts'["global"] = parts["global"]
        /\ \A y \in Parts \ {"tencent"} : parts'[y] = parts[y]
    BY <1>2, <1>11
  <2>2. cmd'.saved = cmd.saved /\ cmd'.op = cmd.op /\ cmd'.key = cmd.key BY <1>4, <1>11 DEF Stepped
  <2>3. Grows BY <1>3, <2>1, <2>2 DEF Grows
  <2>4. Made(step)' BY <1>5, <1>6, <1>11 DEF Made
  <2>5. cmd.saved => SavedEverywhere'
    BY <1>3, <1>7, <1>10, <1>11, <2>1, <2>2 DEF SavedEverywhere, Known
  <2>6. step # "key" BY <1>6, <1>11
  <2> QED BY <1>3, <1>11, <2>1, <2>3, <2>4, <2>5, <2>6, BundleDoes
<1>12. CASE Goto("failed") /\ UNCHANGED <<parts, stores>> BY <1>2, <1>3, <1>12, BundleFails
<1>13. CASE Healthy
  <2>1. /\ parts["containers"] = "whole" /\ Head(cmd.todo) = "checkout" /\ UNCHANGED <<parts, listed, stores>>
        /\ cmd' = [cmd EXCEPT !.todo = SubSeq(cmd.todo, 4, Len(cmd.todo))]
    BY <1>13 DEF Healthy, Integrating, Step, host
  <2>2. PICK todo : todo = SubSeq(cmd.todo, 4, Len(cmd.todo)) OBVIOUS
  <2>3. /\ i = 13 /\ plan[13] = "checkout" /\ plan[14] = "containers" /\ plan[15] = "manifest"
        /\ AtStep(todo, plan, 16) /\ cmd' = [cmd EXCEPT !.todo = todo]
    BY <1>9, <2>1, <2>2
  <2>4. /\ cmd'.saved = cmd.saved /\ cmd'.op = cmd.op /\ cmd'.key = cmd.key /\ cmd'.torn = cmd.torn
        /\ cmd'.here = cmd.here /\ cmd'.staged = cmd.staged /\ cmd'.stores = cmd.stores
        /\ DOMAIN cmd' = DOMAIN cmd
    BY <1>4, <2>3
  <2>5. HostTypes' BY <1>1, <2>1, <2>4 DEF HostTypes
  <2>6. Grows BY <2>1, <2>4 DEF Grows
  <2>7. Made("checkout")' /\ Made("containers")' /\ Made("manifest")'
    BY <1>5, <1>6, <2>1 DEF Made
  <2>8. \A j \in 13..(16 - 1) : j = 13 \/ j = 14 \/ j = 15 OBVIOUS
  <2>9. \A j \in 13..(16 - 1) : Made(plan[j])' BY <2>3, <2>7, <2>8
  <2>10. cmd.saved => SavedEverywhere' BY <1>10, <2>1, <2>4, SavedStays
  <2>11. 16 \in 1..(Len(plan) + 1) /\ 13 # 3 /\ 16 > 13 /\ 13 > 3
    <3>1. PICK n : n = Len(plan) OBVIOUS
    <3>2. n = 17 \/ n = 20 BY <1>9, <3>1
    <3>3. 16 \in 1..(n + 1) BY <3>2
    <3> QED BY <3>1, <3>3
  <2>12. Stepping(plan, 13) BY <1>9, <2>3
  <2> QED BY <1>3, <2>3, <2>5, <2>6, <2>9, <2>10, <2>11, <2>12, BundleGoes
<1>14. CASE Checkout
  <2>1. CASE Goto("failed") /\ UNCHANGED <<parts, stores>> BY <1>12, <2>1
  <2>2. CASE /\ parts' = [parts EXCEPT !["tencent"] = IF @ = "gone" THEN "partial" ELSE @]
             /\ stores' = [stores EXCEPT !["tencent"] = IF @ = None THEN cmd.key ELSE @]
             /\ cmd' = Stepped
    <3>1. PICK state, key : /\ state = IF parts["tencent"] = "gone" THEN "partial" ELSE parts["tencent"]
                            /\ key = IF stores["tencent"] = None THEN cmd.key ELSE stores["tencent"]
      OBVIOUS
    <3>2. state \in {"whole", "partial", "gone"} /\ parts' = [parts EXCEPT !["tencent"] = state]
      BY <1>2, <2>2, <3>1
    <3>3. Head(cmd.todo) = "checkout" BY <1>14 DEF Checkout, Integrating, Step
    <3>4. cmd.saved
      <4>1. i = 13 /\ Stepping(plan, i) BY <1>9, <3>3
      <4> QED BY <4>1 DEF Stepping
    <3>5. "dsh" \in Stores /\ "tencent" \in Stores /\ "strix" \in Stores BY DEF Stores
    <3>6. stores \in [Stores -> AllKeys] BY <1>1 DEF HostTypes
    <3>7. cmd.key \in AllKeys BY <1>10, <3>4, <3>5, <3>6 DEF SavedEverywhere
    <3>8. key \in AllKeys /\ stores' = [stores EXCEPT !["tencent"] = key] BY <2>2, <3>1, <3>5, <3>6, <3>7
    <3>9. /\ stores' \in [Stores -> AllKeys] /\ stores'["dsh"] = stores["dsh"]
          /\ stores'["strix"] = stores["strix"]
      BY <3>5, <3>6, <3>8
    <3> QED BY <1>11, <2>2, <3>2, <3>3, <3>9
  <2> QED BY <1>14, <2>1, <2>2 DEF Checkout
<1>15. CASE WriteManifest
  <2>1. Head(cmd.todo) = "manifest" /\ stores' = stores BY <1>15 DEF WriteManifest, Integrating, Step
  <2>2. CASE Goto("failed") /\ UNCHANGED parts BY <1>12, <2>1, <2>2
  <2>3. CASE parts' = [parts EXCEPT !["tencent"] = "whole"] /\ cmd' = Stepped
    <3>1. stores' \in [Stores -> AllKeys] BY <1>1, <2>1 DEF HostTypes
    <3> QED BY <1>11, <2>1, <2>3, <3>1
  <2> QED BY <1>15, <2>2, <2>3 DEF WriteManifest
<1> QED BY <1>13, <1>14, <1>15

LEMMA BundleResolves == KeyInvariant /\ ResolveKey => KeyInvariant'
<1> SUFFICES ASSUME KeyInvariant, ResolveKey PROVE KeyInvariant'
  OBVIOUS
<1>1. HostTypes /\ UNCHANGED <<parts, listed, stores>> BY DEF KeyInvariant, ResolveKey, host
<1>2. cmd.pc = "integrate" /\ cmd.todo # <<>> /\ Head(cmd.todo) = "key"
  BY DEF ResolveKey, Integrating, At, Step
<1>3. PICK plan, i :
              /\ Stepping(plan, i) /\ i \in 1..Len(plan) /\ Len(plan) \in {17, 20}
              /\ Head(cmd.todo) = plan[i] /\ AtStep(Tail(cmd.todo), plan, i + 1)
              /\ plan[i] = "key" <=> i = 3
  BY <1>2, SteppingOn
<1>4. cmd.op = "bundle" BY <1>2, SteppingAt
<1>5. i = 3 /\ i + 1 = 4 BY <1>2, <1>3
<1>6. AtStep(Tail(cmd.todo), plan, 4) BY <1>3, <1>5
<1>7. /\ plan = Bundle(cmd.here) /\ Made(plan[1]) /\ Made(plan[2])
      /\ cmd.saved = FALSE /\ cmd.staged = NoKeys
  <2>1. Reached(plan, 3) /\ plan = Bundle(cmd.here) BY <1>3, <1>5 DEF Stepping
  <2>2. 1 \in 1..(3 - 1) /\ 2 \in 1..(3 - 1) /\ 3 <= 3 OBVIOUS
  <2>3. Made(plan[1]) /\ Made(plan[2]) /\ ~cmd.saved /\ cmd.staged = NoKeys BY <2>1, <2>2 DEF Reached
  <2> QED BY <1>1, <2>1, <2>3 DEF HostTypes
<1>8. CASE Goto("failed") BY <1>1, <1>2, <1>8, BundleFails DEF HostTypes
<1> SUFFICES ASSUME ~Goto("failed") PROVE KeyInvariant'
  BY <1>8
<1>9. PICK k \in Keys :
          cmd' = [cmd EXCEPT !.pc = "stage", !.key = k, !.later = Tail(cmd.todo),
                             !.todo = Targets(FALSE), !.done = <<>>, !.stores = stores]
  BY DEF ResolveKey
<1>10. /\ DOMAIN cmd = DOMAIN Idle
      /\ {"pc", "op", "key", "here", "todo", "done", "later", "staged", "stores", "saved", "torn"}
            \subseteq DOMAIN Idle
  BY <1>1 DEF HostTypes, Idle
<1>11. PICK todo, later : todo = Targets(FALSE) /\ later = Tail(cmd.todo) OBVIOUS
<1>12. /\ DOMAIN cmd' = DOMAIN cmd /\ cmd'.pc = "stage" /\ cmd'.op = cmd.op /\ cmd'.key = k
       /\ cmd'.later = later /\ cmd'.todo = todo /\ cmd'.done = <<>> /\ cmd'.stores = stores
       /\ cmd'.staged = cmd.staged /\ cmd'.saved = cmd.saved /\ cmd'.torn = cmd.torn /\ cmd'.here = cmd.here
  BY <1>9, <1>10, <1>11
<1>13. HostTypes' BY <1>1, <1>12 DEF HostTypes
<1>14. "stage" \in Switching /\ "stage" \notin Later BY DEF Switching, Later, Updating
<1>15. OpFits' BY <1>4, <1>12, <1>14 DEF OpFits, KeyOps
<1>16. todo \in Seq(Stores) /\ Elements(todo) = Wanted(FALSE, stores) BY <1>11, TargetsAre
<1>17. Wanted(cmd.op = "rotate", cmd.stores)' = Wanted(FALSE, stores)
  <2>1. (cmd'.op = "rotate") = FALSE BY <1>4, <1>12
  <2> QED BY <1>1, <2>1 DEF Wanted, Known
<1>18. cmd'.done \in Seq(Stores) /\ Elements(cmd'.done) = {}
  <2>1. <<>> \in Seq(Stores) /\ Elements(<<>>) = {} BY NoElements
  <2> QED BY <1>12, <2>1
<1>19. cmd'.staged = KeyOf(Elements(cmd.done))' BY <1>7, <1>12, <1>18 DEF KeyOf, NoKeys
<1>20. SwitchFits' BY <1>1, <1>7, <1>12, <1>16, <1>17, <1>18, <1>19 DEF SwitchFits
<1>21. BundleFits'
  <2>1. Grows BY <1>1, <1>12 DEF Grows
  <2>2. Made(plan[1])' /\ Made(plan[2])' BY <1>7, <2>1, MadeStays
  <2>3. plan = Bundle(cmd'.here) /\ AtStep(cmd'.later, plan, 4) BY <1>6, <1>7, <1>11, <1>12
  <2> QED BY <1>12, <1>14, <2>2, <2>3 DEF BundleFits
<1> QED BY <1>7, <1>12, <1>13, <1>15, <1>20, <1>21 DEF KeyInvariant

LEMMA BundleEnds == KeyInvariant /\ EndBundle => KeyInvariant'
<1> SUFFICES ASSUME KeyInvariant, EndBundle PROVE KeyInvariant'
  OBVIOUS
<1>1. HostTypes /\ UNCHANGED <<parts, listed, stores>> BY DEF KeyInvariant, EndBundle, host
<1>2. cmd.pc = "integrate" /\ cmd.todo = <<>> /\ Goto("latest") BY DEF EndBundle, At
<1>3. cmd.op = "bundle" /\ \E plan, i : Stepping(plan, i) BY <1>2, SteppingAt
<1>4. PICK plan, i : Stepping(plan, i) BY <1>3
<1>5. /\ plan \in Seq(Elements(plan)) /\ i \in 1..(Len(plan) + 1) /\ AtStep(cmd.todo, plan, i)
      /\ plan = Bundle(cmd.here) /\ Reached(plan, i) /\ Len(plan) \in {17, 20}
      /\ cmd.saved <=> i > 3
      /\ cmd.saved => SavedEverywhere
  BY <1>4 DEF Stepping
<1>6. i = Len(plan) + 1 BY <1>2, <1>5, AtStepNext
<1>7. DOMAIN cmd = DOMAIN Idle /\ {"pc", "op", "key", "here", "staged", "stores", "saved", "torn"} \subseteq DOMAIN Idle
  BY <1>1 DEF HostTypes, Idle
<1>8. /\ DOMAIN cmd' = DOMAIN cmd /\ cmd'.pc = "latest" /\ cmd'.op = cmd.op /\ cmd'.key = cmd.key
      /\ cmd'.stores = cmd.stores /\ cmd'.staged = cmd.staged /\ cmd'.saved = cmd.saved
      /\ cmd'.torn = cmd.torn /\ cmd'.here = cmd.here
  BY <1>2, <1>7 DEF Goto
<1>9. HostTypes' BY <1>1, <1>8 DEF HostTypes
<1>10. "latest" \notin Switching BY DEF Switching
<1>11. OpFits' BY <1>3, <1>8, <1>10 DEF OpFits
<1>12. Grows BY <1>1, <1>8 DEF Grows
<1>13. Reached(plan, Len(plan) + 1) BY <1>5, <1>6
<1>14. PICK n : n = Len(plan) + 1 OBVIOUS
<1>15. Reached(plan, n)' BY <1>8, <1>12, <1>13, <1>14, ReachedStays
<1>16. BundleFits'
  <2>1. plan = Bundle(cmd'.here) BY <1>5, <1>8
  <2> QED BY <1>8, <1>10, <1>14, <1>15, <2>1 DEF BundleFits
<1>17. cmd.saved => SavedEverywhere' BY <1>1, <1>5, <1>8, SavedStays
<1> QED BY <1>8, <1>9, <1>10, <1>11, <1>16, <1>17 DEF KeyInvariant

(* The commands that set no key. *)
Elsewhere == {"record", "enable", "disable", "remove"}

LEMMA ElsewhereGoes ==
    ASSUME KeyInvariant, cmd.pc \in Elsewhere, cmd'.pc \in Elsewhere \cup {"ok", "failed"},
           parts' \in [Parts -> {"whole", "partial", "gone"}], stores' \in [Stores -> AllKeys],
           DOMAIN cmd' = DOMAIN cmd,
           \A x \in DOMAIN Idle \ {"pc", "todo", "created", "warned", "docker"} : cmd'[x] = cmd[x]
    PROVE  KeyInvariant'
<1>1. {"op", "here", "staged", "stores", "saved", "torn"}
          \subseteq DOMAIN Idle \ {"pc", "todo", "created", "warned", "docker"}
  BY DEF Idle
<1>2. /\ cmd'.op = cmd.op /\ cmd'.here = cmd.here /\ cmd'.staged = cmd.staged /\ cmd'.stores = cmd.stores
      /\ cmd'.saved = cmd.saved /\ cmd'.torn = cmd.torn
  BY <1>1
<1>3. HostTypes' BY <1>2 DEF KeyInvariant, HostTypes
<1>4. cmd.op \notin KeyOps BY DEF KeyInvariant, OpFits, Elsewhere
<1>5. cmd'.pc \notin Switching \cup Later \cup {"reload", "integrate"}
  BY DEF Elsewhere, Switching, Later, Updating
<1>6. OpFits' BY <1>2, <1>4, <1>5 DEF OpFits
<1> QED BY <1>2, <1>3, <1>4, <1>6, OtherOps

LEMMA PermissionsAside ==
    ASSUME KeyInvariant, RecordDirectory \/ EnableLauncher \/ DisableLauncher \/ EndPermissions
    PROVE  KeyInvariant'
<1>1. HostTypes BY DEF KeyInvariant
<1>2. DOMAIN cmd = DOMAIN Idle /\ {"pc", "todo", "created"} \subseteq DOMAIN Idle
  BY <1>1 DEF HostTypes, Idle
<1>3. cmd.pc \in Elsewhere /\ stores' \in [Stores -> AllKeys]
  BY <1>1 DEF RecordDirectory, EnableLauncher, DisableLauncher, EndPermissions, At, Elsewhere, HostTypes, host
<1>4. parts' \in [Parts -> {"whole", "partial", "gone"}]
  BY <1>1 DEF RecordDirectory, EnableLauncher, DisableLauncher, EndPermissions, SaveGlobal, HostTypes, host
<1>5. ASSUME NEW pc \in Elsewhere \cup {"ok", "failed"}, Goto(pc) PROVE KeyInvariant'
  <2>1. /\ cmd'.pc = pc /\ DOMAIN cmd' = DOMAIN cmd
        /\ \A x \in DOMAIN Idle \ {"pc", "todo", "created", "warned"} : cmd'[x] = cmd[x]
    BY <1>2, <1>5 DEF Goto
  <2> QED BY <1>3, <1>4, <1>5, <2>1, ElsewhereGoes
<1>6. {"enable", "ok", "failed"} \subseteq Elsewhere \cup {"ok", "failed"} BY DEF Elsewhere
<1>7. CASE Goto("enable") \/ Goto("ok") \/ Goto("failed") BY <1>5, <1>6, <1>7
<1>8. ASSUME NEW made, cmd' = [cmd EXCEPT !.todo = Tail(@), !.created = made] PROVE KeyInvariant'
  <2>1. /\ cmd'.pc = cmd.pc /\ DOMAIN cmd' = DOMAIN cmd
        /\ \A x \in DOMAIN Idle \ {"pc", "todo", "created", "warned"} : cmd'[x] = cmd[x]
    BY <1>2, <1>8
  <2> QED BY <1>3, <1>4, <2>1, ElsewhereGoes
<1>9. ASSUME cmd' = [cmd EXCEPT !.todo = Tail(@)] PROVE KeyInvariant'
  <2>1. /\ cmd'.pc = cmd.pc /\ DOMAIN cmd' = DOMAIN cmd
        /\ \A x \in DOMAIN Idle \ {"pc", "todo", "created", "warned"} : cmd'[x] = cmd[x]
    BY <1>2, <1>9
  <2> QED BY <1>3, <1>4, <2>1, ElsewhereGoes
<1>10. CASE RecordDirectory BY <1>7, <1>10 DEF RecordDirectory
<1>11. CASE EndPermissions BY <1>7, <1>11 DEF EndPermissions
<1>12. CASE DisableLauncher BY <1>7, <1>9, <1>12 DEF DisableLauncher
<1>13. CASE EnableLauncher
  <2>1. CASE Goto("failed") BY <1>7, <2>1
  <2>2. CASE ~Goto("failed")
    <3>1. PICK l : /\ l = Head(cmd.todo)
                   /\ cmd' = [cmd EXCEPT !.todo = Tail(@),
                                 !.created = IF launchers[l] = "none" THEN @ \cup {l} ELSE @]
      BY <1>13, <2>2 DEF EnableLauncher
    <3>2. PICK made : made = IF launchers[l] = "none" THEN cmd.created \cup {l} ELSE cmd.created OBVIOUS
    <3>3. cmd' = [cmd EXCEPT !.todo = Tail(@), !.created = made] BY <3>1, <3>2
    <3> QED BY <1>8, <3>3
  <2> QED BY <2>1, <2>2
<1> QED BY <1>10, <1>11, <1>12, <1>13

LEMMA RemovalAside ==
    ASSUME KeyInvariant,
           \/ RemoveCodexHooks \/ RemoveGitignoreRules \/ RemoveDSHProfilePatch
           \/ RemoveDSHProviderKey \/ RemoveTencent \/ PurgeManagedRuntime \/ RemoveGlobal \/ RemoveResource
           \/ RemoveExecutable \/ RemoveBaronBackups \/ RemoveLaunchers \/ RemoveFails \/ EndUninstall
    PROVE  KeyInvariant'
<1>1. HostTypes BY DEF KeyInvariant
<1>2. DOMAIN cmd = DOMAIN Idle /\ {"pc", "todo", "warned"} \subseteq DOMAIN Idle
  BY <1>1 DEF HostTypes, Idle
<1>3. /\ parts \in [Parts -> {"whole", "partial", "gone"}] /\ stores \in [Stores -> AllKeys]
  BY <1>1 DEF HostTypes
<1>4. cmd.pc = "remove"
  BY DEF RemoveCodexHooks, RemoveGitignoreRules, RemoveDSHProfilePatch, RemoveDSHProviderKey, RemoveTencent,
         PurgeManagedRuntime, RemoveGlobal, RemoveResource, RemoveExecutable, RemoveBaronBackups,
         RemoveLaunchers, RemoveFails, EndUninstall, Removing, At
<1>5. {"remove", "ok", "failed"} \subseteq Elsewhere \cup {"ok", "failed"} /\ "remove" \in Elsewhere BY DEF Elsewhere
<1>6. ASSUME NEW pc \in {"ok", "failed"}, Goto(pc), parts' \in [Parts -> {"whole", "partial", "gone"}],
             stores' \in [Stores -> AllKeys]
      PROVE  KeyInvariant'
  <2>1. /\ cmd'.pc = pc /\ DOMAIN cmd' = DOMAIN cmd
        /\ \A x \in DOMAIN Idle \ {"pc", "todo", "created", "warned"} : cmd'[x] = cmd[x]
    BY <1>2, <1>6 DEF Goto
  <2> QED BY <1>4, <1>5, <1>6, <2>1, ElsewhereGoes
<1>7. ASSUME NEW warned, Next1(warned), parts' \in [Parts -> {"whole", "partial", "gone"}],
             stores' \in [Stores -> AllKeys]
      PROVE  KeyInvariant'
  <2>1. /\ cmd'.pc = cmd.pc /\ DOMAIN cmd' = DOMAIN cmd
        /\ \A x \in DOMAIN Idle \ {"pc", "todo", "created", "warned"} : cmd'[x] = cmd[x]
    BY <1>2, <1>7 DEF Next1, Stepped
  <2> QED BY <1>4, <1>5, <1>7, <2>1, ElsewhereGoes
<1>8. ASSUME NEW xs, NEW keys, Remove(xs, keys) PROVE KeyInvariant'
  <2>1. Next1(FALSE) BY <1>8 DEF Remove
  <2>2. parts' \in [Parts -> {"whole", "partial", "gone"}] /\ stores' \in [Stores -> AllKeys]
    BY <1>3, <1>8 DEF Remove, AllKeys
  <2> QED BY <1>7, <2>1, <2>2
<1>9. CASE RemoveLaunchers
  <2>1. PICK warned : warned = \E l \in Launchers : Foreign(l) OBVIOUS
  <2>2. Next1(warned) /\ parts' = parts /\ stores' = stores BY <1>9, <2>1 DEF RemoveLaunchers
  <2> QED BY <1>3, <1>7, <2>2
<1>10. CASE RemoveFails
  <2>1. PICK step : step = Head(cmd.todo) OBVIOUS
  <2>2. parts' \in {parts} \cup {[x \in Parts |-> IF x = step THEN "partial" ELSE parts[x]]} /\ stores' = stores
    BY <1>10, <2>1 DEF RemoveFails
  <2>3. parts' \in [Parts -> {"whole", "partial", "gone"}] BY <1>3, <2>2
  <2>4. Next1(TRUE) \/ Goto("failed") BY <1>10 DEF RemoveFails
  <2> QED BY <1>3, <1>6, <1>7, <2>2, <2>3, <2>4
<1>11. CASE EndUninstall
  <2>1. (Goto("failed") \/ Goto("ok")) /\ parts' = parts /\ stores' = stores BY <1>11 DEF EndUninstall, host
  <2> QED BY <1>3, <1>6, <2>1
<1>12. CASE \/ RemoveCodexHooks \/ RemoveGitignoreRules \/ RemoveDSHProfilePatch \/ RemoveDSHProviderKey
            \/ PurgeManagedRuntime \/ RemoveGlobal \/ RemoveExecutable \/ RemoveBaronBackups
  BY <1>8, <1>12 DEF RemoveCodexHooks, RemoveGitignoreRules, RemoveDSHProfilePatch, RemoveDSHProviderKey,
                     PurgeManagedRuntime, RemoveGlobal, RemoveExecutable, RemoveBaronBackups
<1>13. CASE RemoveResource
  <2>1. PICK x : Remove({x}, {x} \cap {"tencent"}) BY <1>13 DEF RemoveResource
  <2> QED BY <1>8, <2>1
<1>14. CASE RemoveTencent
  <2>1. PICK docker, left :
           /\ left \in Leaves(docker) /\ parts' = [x \in Parts |-> IF x = "containers" THEN left ELSE parts[x]]
           /\ cmd' = [Stepped EXCEPT !.docker = docker] /\ stores' = stores
    BY <1>14 DEF RemoveTencent
  <2>2. "containers" \in Parts BY DEF Parts
  <2>3. left \in {"whole", "partial", "gone"} BY <1>3, <2>1, <2>2 DEF Leaves
  <2>4. parts' \in [Parts -> {"whole", "partial", "gone"}] BY <1>3, <2>1, <2>3
  <2>5. /\ cmd'.pc = cmd.pc /\ DOMAIN cmd' = DOMAIN cmd
        /\ \A x \in DOMAIN Idle \ {"pc", "todo", "created", "warned", "docker"} : cmd'[x] = cmd[x]
    BY <1>2, <2>1 DEF Stepped
  <2> QED BY <1>3, <1>4, <1>5, <2>1, <2>4, <2>5, ElsewhereGoes
<1> QED BY <1>9, <1>10, <1>11, <1>12, <1>13, <1>14

LEMMA KillAside == KeyInvariant /\ Kill => KeyInvariant'
<1> SUFFICES ASSUME KeyInvariant, Kill PROVE KeyInvariant'
  OBVIOUS
<1>1. /\ DOMAIN cmd' = DOMAIN Idle /\ cmd'.pc = "dead" /\ cmd'.saved = FALSE /\ cmd'.torn = FALSE
      /\ cmd'.here = FALSE /\ cmd'.stores = NoKeys /\ cmd'.staged = NoKeys
  BY DEF Kill, Idle
<1>2. NoKeys \in [Stores -> AllKeys] BY DEF NoKeys, AllKeys
<1>3. HostTypes' BY <1>1, <1>2 DEF KeyInvariant, HostTypes, Kill
<1>4. "dead" \notin Switching \cup Later BY DEF Switching, Later, Updating
<1>5. OpFits' BY <1>1, <1>4 DEF OpFits
<1>6. BundleFits' BY <1>1, <1>4 DEF BundleFits
<1> QED BY <1>1, <1>3, <1>4, <1>5, <1>6 DEF KeyInvariant

(* What the invariant says depends on the parts, the stores and the command. *)
LEMMA KeyElsewhere ==
    ASSUME KeyInvariant, UNCHANGED <<parts, listed, stores, cmd>>
    PROVE  KeyInvariant'
<1>1. HostTypes' /\ OpFits' BY DEF KeyInvariant, HostTypes, OpFits
<1>2. cmd.pc \in Switching => SwitchFits' BY DEF KeyInvariant, SwitchFits, Wanted, Known, KeyOf
<1>3. SavedEverywhere => SavedEverywhere' BY DEF SavedEverywhere, Known
<1>4. Unchanged => Unchanged' BY DEF Unchanged
<1>5. ASSUME BundleFits PROVE BundleFits'
  <2>1. PICK plan : plan = Bundle(cmd.here) OBVIOUS
  <2>2. Grows BY DEF Grows
  <2>3. \A step : Made(step) => Made(step)' BY <2>2, MadeStays
  <2>4. \A i : Reached(plan, i) => Reached(plan, i)' BY <2>3 DEF Reached
  <2>5. plan = Bundle(cmd'.here) BY <2>1
  <2>6. cmd'.todo = cmd.todo /\ cmd'.later = cmd.later /\ cmd'.pc = cmd.pc OBVIOUS
  <2> QED BY <1>5, <2>1, <2>3, <2>4, <2>5, <2>6 DEF BundleFits
<1> QED BY <1>1, <1>2, <1>3, <1>4, <1>5 DEF KeyInvariant

LEMMA KeyNext == KeyInvariant /\ [Next]_vars => KeyInvariant'
<1> SUFFICES ASSUME KeyInvariant, [Next]_vars PROVE KeyInvariant'
  OBVIOUS
<1>1. CASE UNCHANGED vars BY <1>1, KeyElsewhere DEF vars
<1>2. CASE \E k \in valid : Revoke(k) BY <1>2, KeyElsewhere DEF Revoke, host
<1>3. CASE BeginUpdate \/ BeginPermissions \/ BeginUninstall BY <1>3, BeginsOther
<1>4. CASE BeginRotate \/ BeginResolve BY <1>4, BeginsKey
<1>5. CASE BeginBundle BY <1>5, BeginsBundle
<1>6. CASE \/ Latest \/ CheckManifest \/ CheckSums \/ CheckLaunch
           \/ BackupBinary \/ ReplaceBinary \/ ValidateBinary \/ RestoreBinary \/ Reload
  BY <1>6, UpdateAside
<1>7. CASE Stage \/ BackupKeys \/ Commit \/ UndoKey \/ EndUndo BY <1>7, SwitchSteps
<1>8. CASE \/ ApplyRuntime \/ InstallDSHAdapter \/ EnsureDSHProfilePatch \/ EnsureDSHBaseline
           \/ InstallCodexAdapter \/ MergeCodexHooks \/ StartServices \/ SetupProject \/ WriteReceipt
  <2>1. /\ {"runtime", "dsh", "patch", "baseline", "codex", "hooks", "containers", "project", "gitignore"}
               \subseteq Written
        /\ Receipts \subseteq Written
    BY DEF Written
  <2>2. \E x \in Written : Integrating(x) /\ Put(x)
    BY <1>8, <2>1 DEF ApplyRuntime, InstallDSHAdapter, EnsureDSHProfilePatch, EnsureDSHBaseline,
                      InstallCodexAdapter, MergeCodexHooks, StartServices, SetupProject, WriteReceipt
  <2> QED BY <2>2, BundlePuts
<1>9. CASE ResolveKey BY <1>9, BundleResolves
<1>10. CASE SaveState BY <1>10, BundleSaves
<1>11. CASE Healthy \/ Checkout \/ WriteManifest BY <1>11, BundleChecksOut
<1>12. CASE EndBundle BY <1>12, BundleEnds
<1>13. CASE RecordDirectory \/ EnableLauncher \/ DisableLauncher \/ EndPermissions
  BY <1>13, PermissionsAside
<1>14. CASE \/ RemoveCodexHooks \/ RemoveGitignoreRules \/ RemoveDSHProfilePatch
            \/ RemoveDSHProviderKey \/ RemoveTencent \/ PurgeManagedRuntime \/ RemoveGlobal \/ RemoveResource
            \/ RemoveExecutable \/ RemoveBaronBackups \/ RemoveLaunchers \/ RemoveFails \/ EndUninstall
  BY <1>14, RemovalAside
<1>15. CASE Kill BY <1>15, KillAside
<1> QED BY <1>1, <1>2, <1>3, <1>4, <1>5, <1>6, <1>7, <1>8, <1>9, <1>10, <1>11, <1>12, <1>13, <1>14, <1>15
        DEF Next

THEOREM KeyInvariantHolds == Spec => []KeyInvariant
BY KeyInit, KeyNext, PTL DEF Spec

(* A rotation that reports success has put its key into every store it knows;  *)
(* one that fails before that leaves every store as it found it and no staged  *)
(* file, unless the failure struck after a rename or the undoing failed as     *)
(* well: for any keys, failures, kills and commands before it (SetCredential   *)
(* of app.go; Stage, Commit and rollbackCredentialGeneration of                *)
(* strix_credentials.go).                                                      *)
THEOREM RotationAtomicHolds == Spec => []RotationAtomic
<1>1. KeyInvariant => RotationAtomic
  BY DEF KeyInvariant, KeyOps, RotationAtomic, SavedEverywhere, Unchanged, At
<1> QED BY <1>1, KeyInvariantHolds, PTL

(* A bundle that reports success has put every part in place and into          *)
(* global.json, for any kills, errors, half-done uninstalls and other commands *)
(* before it (runFullBundle and the init steps of app.go).                     *)
THEOREM BundleCompleteHolds == Spec => []BundleComplete
<1>1. KeyInvariant => BundleComplete
  <2> SUFFICES ASSUME KeyInvariant, cmd.op = "bundle", cmd.pc = "ok" PROVE BundleComplete
    BY DEF BundleComplete, At
  <2>1. PICK plan : plan = Bundle(cmd.here) OBVIOUS
  <2>2. cmd.here \in BOOLEAN /\ cmd.op \in KeyOps BY DEF KeyInvariant, HostTypes, KeyOps
  <2>3. Reached(plan, Len(plan) + 1) BY <2>1 DEF KeyInvariant, BundleFits
  <2>4. /\ plan \in Seq(Elements(plan)) /\ Len(plan) \in {17, 20} /\ plan[3] = "key"
        /\ {"runtime", "saveRuntime", "dsh", "patch", "baseline", "dshReceipt", "saveDSH",
            "codex", "hooks", "codexReceipt", "saveCodex", "containers", "tencentReceipt", "saveTencent"}
               \subseteq Elements(plan)
        /\ cmd.here => {"project", "gitignore", "saveProject"} \subseteq Elements(plan)
    BY <2>1, <2>2, BundleIs
  <2>5. \A step \in Elements(plan) : Made(step)
    <3>1. DOMAIN plan = 1..Len(plan) /\ Len(plan) \in Nat BY <2>4
    <3>2. \A j \in 1..Len(plan) : j \in 1..((Len(plan) + 1) - 1) BY <3>1
    <3> QED BY <2>3, <3>1, <3>2 DEF Reached, Elements
  <2>6. cmd.saved
    <3>1. 3 \in 1..((Len(plan) + 1) - 1) BY <2>4
    <3> QED BY <2>3, <2>4, <3>1 DEF Reached, Made
  <2>7. ASSUME NEW x \in Parts \ {"tencent"}, x \in {"project", "gitignore"} => cmd.here
        PROVE  parts[x] = "whole"
    <3>1. CASE x = "global"
      <4>1. Made("saveRuntime") /\ Names("saveRuntime") # {} BY <2>4, <2>5 DEF Names
      <4> QED BY <3>1, <4>1 DEF Made
    <3>2. CASE x # "global"
      <4>1. x \in Elements(plan) BY <2>4, <2>7, <3>2 DEF Parts, Listable, Receipts
      <4> QED BY <2>5, <2>7, <4>1 DEF Made
    <3> QED BY <3>1, <3>2
  <2>8. ASSUME NEW x \in Listable, x # "project" \/ cmd.here PROVE x \in listed
    <3>1. PICK step \in {"saveRuntime", "saveDSH", "saveCodex", "saveTencent", "saveProject"} :
             x \in Names(step) /\ (step = "saveProject" => x = "project")
      <4>1. /\ "runtime" \in Names("saveRuntime") /\ "dshReceipt" \in Names("saveDSH")
            /\ "codexReceipt" \in Names("saveCodex") /\ "tencentReceipt" \in Names("saveTencent")
            /\ "tencent" \in Names("saveTencent") /\ "project" \in Names("saveProject")
        BY DEF Names
      <4> QED BY <4>1 DEF Listable, Receipts
    <3>2. step \in Elements(plan) BY <2>4, <2>8, <3>1
    <3> QED BY <2>5, <3>1, <3>2 DEF Made
  <2>9. Listable \ (IF cmd.here THEN {} ELSE {"project"}) \subseteq listed BY <2>2, <2>8
  <2>10. stores["dsh"] = cmd.key /\ stores["strix"] = cmd.key
    <3>1. SavedEverywhere BY <2>2, <2>6 DEF KeyInvariant
    <3>2. parts["global"] = "whole" BY <2>7 DEF Parts
    <3>3. "runtime" \in listed BY <2>8 DEF Listable
    <3> QED BY <3>1, <3>2, <3>3 DEF SavedEverywhere, Known
  <2> QED BY <2>7, <2>9, <2>10 DEF BundleComplete
<1> QED BY <1>1, KeyInvariantHolds, PTL

===============================================================================
