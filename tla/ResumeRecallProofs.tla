--------------------------- MODULE ResumeRecallProofs ---------------------------
(* The transcript of a session's checkpoints, the recall cache and the resume  *)
(* gate, for any number of hooks, sessions, tasks and requests.                *)
EXTENDS ResumeRecall, TLAPS, FiniteSetTheorems

Step == "checkpoint_updated"

(* A hook of session s with a checkpoint event that has yet to count.          *)
Waiting(h, s) ==
    /\ hook[h].pc \in {"load", "save", "decide", "converse"}
    /\ hook[h].request.session = s
    /\ hook[h].request.event = Step

(* The fields of a hook the argument is about are there. *)
HookShape ==
    /\ hook = [h \in Hooks |-> hook[h]]
    /\ \A h \in Hooks : {"pc", "request", "open"} \subseteq DOMAIN hook[h]

Counts ==
    /\ events \in [Sessions -> [Events -> Nat]]
    /\ told \in [Sessions -> {0, 1}]

(* Without an event nothing was told and nobody waits; with one event there is *)
(* one hook at most that waits, and none once it was told.                     *)
Once ==
    \A s \in Sessions :
        /\ events[s][Step] = 0 => told[s] = 0 /\ \A h \in Hooks : ~Waiting(h, s)
        /\ events[s][Step] = 1 =>
              /\ \A g, h \in Hooks : Waiting(g, s) /\ Waiting(h, s) => g = h
              /\ told[s] = 1 => \A h \in Hooks : ~Waiting(h, s)

TranscriptInvariant == HookShape /\ Counts /\ Once

(* A step that records no event, tells nothing and makes nobody wait.          *)
Quiet ==
    /\ events' = events /\ told' = told
    /\ \A h \in Hooks, s \in Sessions : Waiting(h, s)' => Waiting(h, s)

LEMMA QuietKeeps ==
    ASSUME TranscriptInvariant, Quiet, HookShape' PROVE TranscriptInvariant'
<1>1. Counts' BY DEF TranscriptInvariant, Counts, Quiet
<1>2. Once' BY DEF TranscriptInvariant, Once, Quiet
<1> QED BY <1>1, <1>2 DEF TranscriptInvariant

(* A hook moves on: from the fields of its new record.                         *)
LEMMA SetKeeps ==
    ASSUME TranscriptInvariant, NEW h \in Hooks, NEW rec, Set(h, rec),
           {"pc", "request", "open"} \subseteq DOMAIN rec,
           rec.pc \in {"load", "save", "decide", "converse"} =>
               /\ hook[h].pc \in {"load", "save", "decide", "converse"}
               /\ rec.request = hook[h].request,
           events' = events, told' = told
    PROVE  TranscriptInvariant'
<1>1. hook' = [g \in Hooks |-> IF g = h THEN rec ELSE hook[g]]
  BY DEF Set, TranscriptInvariant, HookShape
<1>2. HookShape' BY <1>1 DEF TranscriptInvariant, HookShape
<1>3. Quiet BY <1>1 DEF Quiet, Waiting
<1> QED BY <1>2, <1>3, QuietKeeps

(* What a layer's answer and that of the wiki and the graph change of a hook.  *)
LEMMA AnswerMoves ==
    ASSUME NEW h \in Hooks, NEW layer, Answer(h, layer)
    PROVE  \E pending, records, short :
              Set(h, [hook[h] EXCEPT !.pending = pending, !.records = records, !.short = short])
<1>1. PICK given : Set(h, [hook[h] EXCEPT
                !.pending = @ \ {layer}, !.records = @ \cup {r \in given : Kept(r)},
                !.short = IF given = Finds(hook[h], layer) THEN @ ELSE @ \cup {layer}])
  BY DEF Answer
<1> QED BY <1>1

LEMMA DecideMoves ==
    ASSUME NEW h \in Hooks, Decide(h), DOMAIN hook[h] = DOMAIN Idle
    PROVE  \E ts, outcome, print :
              Set(h, [hook[h] EXCEPT !.pc = "converse", !.ledger = ts, !.outcome = outcome, !.print = print])
<1>1. CASE \E ts, outcome, print :
             Set(h, [hook[h] EXCEPT !.pc = "converse", !.ledger = ts, !.outcome = outcome, !.print = print])
  BY <1>1
<1>2. CASE Set(h, [hook[h] EXCEPT !.pc = "converse", !.outcome = "remote_recovery_required",
                                 !.print = Fingerprint(hook[h], {})])
  <2>1. [hook[h] EXCEPT !.pc = "converse", !.outcome = "remote_recovery_required",
                        !.print = Fingerprint(hook[h], {})] =
        [hook[h] EXCEPT !.pc = "converse", !.ledger = hook[h].ledger, !.outcome = "remote_recovery_required",
                        !.print = Fingerprint(hook[h], {})]
    BY DEF Idle
  <2> QED BY <1>2, <2>1
<1> QED BY <1>1, <1>2 DEF Decide

LEMMA RetrieveMoves ==
    ASSUME NEW h \in Hooks, Retrieve(h)
    PROVE  \E heard, short, error :
              Set(h, [hook[h] EXCEPT !.pc = "store", !.heard = heard, !.short = short, !.error = error])
BY DEF Retrieve

LEMMA TranscriptInit == Init => TranscriptInvariant
<1> SUFFICES ASSUME Init PROVE TranscriptInvariant OBVIOUS
<1>1. HookShape BY DEF Init, HookShape, Idle
<1>2. Counts BY DEF Init, Counts
<1>3. Once BY DEF Init, Once, Waiting, Idle, Events, Step
<1> QED BY <1>1, <1>2, <1>3 DEF TranscriptInvariant

LEMMA TranscriptStep == TranscriptInvariant /\ [Next]_vars => TranscriptInvariant'
<1> SUFFICES ASSUME TranscriptInvariant, [Next]_vars PROVE TranscriptInvariant' OBVIOUS
<1> USE DEF bounds, project
<1>1. ASSUME NEW t \in Tasks, TaskEvent(t) PROVE TranscriptInvariant'
  <2>1. /\ hook' = [h \in Hooks |-> [hook[h] EXCEPT !.open = hook'[h].open]]
        /\ events' = events /\ told' = told
    BY <1>1 DEF TaskEvent, TranscriptInvariant, HookShape
  <2>2. \A h \in Hooks : /\ hook'[h].pc = hook[h].pc /\ hook'[h].request = hook[h].request
                         /\ DOMAIN hook'[h] = DOMAIN hook[h]
    BY <2>1 DEF TranscriptInvariant, HookShape
  <2>3. HookShape' BY <2>1, <2>2 DEF TranscriptInvariant, HookShape
  <2>4. Quiet BY <2>1, <2>2 DEF Quiet, Waiting
  <2> QED BY <2>3, <2>4, QuietKeeps
<1>2. ASSUME Edit \/ Work \/ Provision \/ (\E r \in Records : Capture(r)) \/ UNCHANGED vars
      PROVE  TranscriptInvariant'
  <2>1. hook' = hook /\ events' = events /\ told' = told
    BY <1>2 DEF Edit, Work, Provision, Capture, vars
  <2> QED BY <2>1, QuietKeeps DEF TranscriptInvariant, HookShape, Quiet, Waiting
<1>3. ASSUME NEW h \in Hooks, Receive(h) PROVE TranscriptInvariant'
  <2>1. PICK request \in Requests :
          /\ events' = [events EXCEPT ![request.session][request.event] = @ + 1]
          /\ Set(h, [Idle EXCEPT !.pc = "load", !.request = request, !.sources = setup,
                                 !.open = Unresolved, !.knew = remote])
    BY <1>3 DEF Receive
  <2>2. told' = told BY <1>3 DEF Receive
  <2>3. request.session \in Sessions /\ request.event \in Events
    BY RecallConstants DEF Request
  <2> DEFINE rec == [Idle EXCEPT !.pc = "load", !.request = request, !.sources = setup,
                                 !.open = Unresolved, !.knew = remote]
  <2>4. /\ rec.pc = "load" /\ rec.request = request
        /\ {"pc", "request", "open"} \subseteq DOMAIN rec
    BY DEF Idle
  <2>5. hook' = [g \in Hooks |-> IF g = h THEN rec ELSE hook[g]]
    BY <2>1 DEF Set, TranscriptInvariant, HookShape
  <2> HIDE DEF rec
  <2>6. HookShape' BY <2>4, <2>5 DEF TranscriptInvariant, HookShape
  <2>7. Counts' BY <2>1, <2>2, <2>3 DEF TranscriptInvariant, Counts
  <2>8. ~(hook[h].pc \in {"load", "save", "decide", "converse"})
    BY <1>3 DEF Receive
  <2>9. ASSUME NEW s \in Sessions
        PROVE  /\ events'[s][Step] = 0 => told'[s] = 0 /\ \A g \in Hooks : ~Waiting(g, s)'
               /\ events'[s][Step] = 1 =>
                    /\ \A f, g \in Hooks : Waiting(f, s)' /\ Waiting(g, s)' => f = g
                    /\ told'[s] = 1 => \A g \in Hooks : ~Waiting(g, s)'
    <3>1. CASE s = request.session /\ Step = request.event
      <4>1. events'[s][Step] = events[s][Step] + 1 /\ events[s][Step] \in Nat
        BY <2>1, <2>3, <3>1 DEF TranscriptInvariant, Counts
      <4>2. events'[s][Step] # 0 BY <4>1
      <4>3. CASE events'[s][Step] = 1
        <5>1. events[s][Step] = 0 BY <4>1, <4>3
        <5>2. told[s] = 0 /\ \A g \in Hooks : ~Waiting(g, s)
          BY <5>1 DEF TranscriptInvariant, Once
        <5>3. \A g \in Hooks : Waiting(g, s)' => g = h
          BY <5>2, <2>5 DEF Waiting
        <5> QED BY <5>2, <5>3, <2>2, <4>2
      <4> QED BY <4>2, <4>3
    <3>2. CASE ~(s = request.session /\ Step = request.event)
      <4>1. events'[s][Step] = events[s][Step]
        BY <2>1, <2>3, <3>2 DEF TranscriptInvariant, Counts, Step, Events
      <4>2. \A g \in Hooks : Waiting(g, s)' => Waiting(g, s)
        BY <2>4, <2>5, <3>2 DEF Waiting
      <4> QED BY <4>1, <4>2, <2>2 DEF TranscriptInvariant, Once
    <3> QED BY <3>1, <3>2
  <2> QED BY <2>6, <2>7, <2>9 DEF TranscriptInvariant, Once
<1>4. ASSUME NEW h \in Hooks, Converse(h) PROVE TranscriptInvariant'
  <2>0. PICK s, e : s = hook[h].request.session /\ e = hook[h].request.event OBVIOUS
  <2>9. PICK recalls \in Recalls(hook[h]) :
          Set(h, [hook[h] EXCEPT !.pc = IF recalls THEN "cache" ELSE "done"])
    BY <1>4 DEF Converse
  <2> DEFINE rec == [hook[h] EXCEPT !.pc = IF recalls THEN "cache" ELSE "done"]
  <2>1. /\ hook[h].pc = "converse" /\ events' = events
        /\ told' = [told EXCEPT ![s] = IF e = Step /\ Converses(s, e) THEN @ + 1 ELSE @]
        /\ Set(h, rec)
    BY <1>4, <2>0, <2>9 DEF Converse, At, Step
  <2>2. rec.pc \notin {"load", "save", "decide", "converse"} /\ DOMAIN rec = DOMAIN hook[h]
    BY DEF TranscriptInvariant, HookShape
  <2>3. hook' = [g \in Hooks |-> IF g = h THEN rec ELSE hook[g]]
    BY <2>1 DEF Set, TranscriptInvariant, HookShape
  <2> HIDE DEF rec
  <2>4. HookShape' BY <2>2, <2>3 DEF TranscriptInvariant, HookShape
  <2>5. \A g \in Hooks, r \in Sessions : Waiting(g, r)' => Waiting(g, r) /\ g # h
    BY <2>2, <2>3 DEF Waiting
  <2>6. CASE ~(e = Step /\ Converses(s, e) /\ s \in Sessions)
    <3>1. told' = told BY <2>1, <2>6 DEF TranscriptInvariant, Counts
    <3> QED BY <3>1, <2>1, <2>4, <2>5, QuietKeeps DEF Quiet
  <2>7. CASE e = Step /\ Converses(s, e) /\ s \in Sessions
    <3>1. events[s][Step] = 1 BY <2>7 DEF Converses, Step
    <3>2. Waiting(h, s) BY <2>0, <2>1, <2>7 DEF Waiting
    <3>3. told[s] = 0 /\ \A g \in Hooks : Waiting(g, s) => g = h
      BY <3>1, <3>2, <2>7 DEF TranscriptInvariant, Once, Counts
    <3>4. told' = [told EXCEPT ![s] = 1]
      BY <2>1, <2>7, <3>3 DEF TranscriptInvariant, Counts
    <3>5. Counts' BY <2>1, <3>4, <2>7 DEF TranscriptInvariant, Counts
    <3>6. \A g \in Hooks : ~Waiting(g, s)' BY <2>5, <2>7, <3>3
    <3>7. ASSUME NEW r \in Sessions
          PROVE  /\ events'[r][Step] = 0 => told'[r] = 0 /\ \A g \in Hooks : ~Waiting(g, r)'
                 /\ events'[r][Step] = 1 =>
                      /\ \A f, g \in Hooks : Waiting(f, r)' /\ Waiting(g, r)' => f = g
                      /\ told'[r] = 1 => \A g \in Hooks : ~Waiting(g, r)'
      <4>1. CASE r = s BY <4>1, <2>1, <3>1, <3>6
      <4>2. CASE r # s
        <5>1. told'[r] = told[r] BY <4>2, <3>4, <2>7 DEF TranscriptInvariant, Counts
        <5> QED BY <5>1, <2>1, <2>5 DEF TranscriptInvariant, Once
      <4> QED BY <4>1, <4>2
    <3> QED BY <2>4, <3>5, <3>7 DEF TranscriptInvariant, Once
  <2> QED BY <2>6, <2>7
<1>5. ASSUME NEW h \in Hooks, Load(h) \/ Save(h) \/ Decide(h) PROVE TranscriptInvariant'
  <2> USE DEF TranscriptInvariant, HookShape, At
  <2>1. CASE Load(h) BY <2>1, SetKeeps DEF Load
  <2>2. CASE Save(h) BY <2>2, SetKeeps DEF Save
  <2>3. CASE Decide(h) BY <2>3, SetKeeps DEF Decide
  <2> QED BY <1>5, <2>1, <2>2, <2>3
<1>6. ASSUME NEW h \in Hooks,
             \/ Lookup(h) \/ Retrieve(h) \/ Put(h) \/ Kill(h)
             \/ \E layer \in Layers : Answer(h, layer) \/ Refuse(h, layer)
      PROVE  TranscriptInvariant'
  <2> USE DEF TranscriptInvariant, HookShape, At
  <2>1. CASE Lookup(h)
    <3>1. events' = events /\ told' = told BY <2>1 DEF Lookup
    <3>2. ASSUME NEW c \in cache, Set(h, [hook[h] EXCEPT !.pc = "done", !.records = c.records,
                                      !.heard = c.heard, !.short = c.short, !.line = c.line])
          PROVE  TranscriptInvariant'
      BY <3>1, <3>2, SetKeeps
    <3>3. ASSUME NEW match, NEW asked, NEW had, NEW line,
                 Set(h, [[hook[h] EXCEPT !.match = match] EXCEPT
                           !.pc = "layers", !.pending = asked, !.line = line, !.had = had])
          PROVE  TranscriptInvariant'
      BY <3>1, <3>3, SetKeeps
    <3> QED BY <2>1, <3>2, <3>3 DEF Lookup
  <2>2. CASE Retrieve(h)
    <3>1. PICK heard, short, error :
            Set(h, [hook[h] EXCEPT !.pc = "store", !.heard = heard, !.short = short, !.error = error])
      BY <2>2, RetrieveMoves
    <3>3. events' = events /\ told' = told BY <2>2 DEF Retrieve
    <3> QED BY <3>1, <3>3, SetKeeps
  <2>3. CASE Put(h) BY <2>3, SetKeeps DEF Put
  <2>4. CASE Kill(h) BY <2>4, SetKeeps DEF Kill, Idle
  <2>5. ASSUME NEW layer \in Layers, Answer(h, layer) PROVE TranscriptInvariant'
    <3>1. PICK pending, records, short :
            Set(h, [hook[h] EXCEPT !.pending = pending, !.records = records, !.short = short])
      BY <2>5, AnswerMoves
    <3>2. events' = events /\ told' = told BY <2>5 DEF Answer
    <3> QED BY <2>5, <3>1, <3>2, SetKeeps DEF Answer
  <2>6. ASSUME NEW layer \in Layers, Refuse(h, layer) PROVE TranscriptInvariant'
    BY <2>6, SetKeeps DEF Refuse
  <2> QED BY <1>6, <2>1, <2>2, <2>3, <2>4, <2>5, <2>6
<1> QED BY <1>1, <1>2, <1>3, <1>4, <1>5, <1>6 DEF Next

(* However many hooks of a session run at once, its checkpoints bring the      *)
(* transcript at most once (localConversationContext counts the events of the  *)
(* session after its own is recorded).                                         *)
THEOREM TranscriptOnceHolds == Spec => []TranscriptOnce
<1>1. Spec => []TranscriptInvariant
  BY TranscriptInit, TranscriptStep, PTL DEF Spec
<1>2. TranscriptInvariant => TranscriptOnce
  BY DEF TranscriptInvariant, Counts, TranscriptOnce
<1> QED BY <1>1, <1>2, PTL

-------------------------------------------------------------------------------
(* Every hook is a record with the fields of one at rest. *)
RecallShape ==
    /\ hook = [h \in Hooks |-> hook[h]]
    /\ \A h \in Hooks : DOMAIN hook[h] = DOMAIN Idle /\ hook[h].error \in BOOLEAN

(* Of the records that are there, what the query of a hook is for. *)
Found(rec, r, there) ==
    r \in there \cap rec.match /\ (r.layer = "atomic" /\ Kinds(rec) # {} => r.kind \in Kinds(rec))

(* What a packet on its way holds of the records that were found when it was   *)
(* asked for, unless a layer failed: those of the layers that have answered,   *)
(* but for the ones that left something out, then all of them, and the answers *)
(* of the wiki and the graph.                                                  *)
Packet(rec, there) ==
    /\ rec.pc = "layers" =>
          /\ \A r \in rec.had : Found(rec, r, there)
          /\ ~rec.error => \A r \in rec.had : Kept(r) =>
                r.layer \in rec.pending \/ r \in rec.records \/ r.layer \in rec.short
    /\ rec.pc = "store" /\ ~rec.error =>
          /\ \A r \in rec.had : Kept(r) => r \in rec.records \/ r.layer \in rec.short
          /\ ~Blank(Query(rec)) => rec.sources \ {"memory"} \subseteq rec.heard

CacheInvariant ==
    /\ RecallShape
    /\ remote \subseteq Records
    /\ \A h \in Hooks : Packet(hook[h], remote)
    /\ CacheWhole

(* What a hook remembers as unresolved still is; before the gate there is no   *)
(* outcome, and after it one that misses none of these tasks.                  *)
Announced(rec) ==
    rec.outcome \in Sufficient =>
        \A t \in rec.open : t # rec.request.scope.task /\ ~Strong(t, rec.request.scope)

Gated(rec, unresolved) ==
    /\ rec.open \subseteq unresolved
    /\ rec.pc \in {"load", "save", "decide"} => rec.outcome = None
    /\ Announced(rec)

Ledger ==
    /\ tasks = [t \in Tasks |-> tasks[t]]
    /\ \A t \in Tasks : tasks[t].at \in Nat
    /\ changes \in Nat

GateInvariant ==
    /\ RecallShape
    /\ Ledger
    /\ \A h \in Hooks : Gated(hook[h], Unresolved)

-------------------------------------------------------------------------------
(* One hook moves on.                                                          *)
LEMMA RecallMoves ==
    ASSUME RecallShape, NEW h \in Hooks, NEW rec, Set(h, rec),
           DOMAIN rec = DOMAIN Idle, rec.error \in BOOLEAN
    PROVE  /\ RecallShape'
           /\ hook'[h] = rec
           /\ \A g \in Hooks : g # h => hook'[g] = hook[g]
<1>1. hook' = [g \in Hooks |-> IF g = h THEN rec ELSE hook[g]]
  BY DEF Set, RecallShape
<1> QED BY <1>1 DEF RecallShape

(* A hook moves on while the cache and the provider stay.                      *)
LEMMA PacketKeeps ==
    ASSUME CacheInvariant, NEW h \in Hooks, NEW rec, Set(h, rec),
           DOMAIN rec = DOMAIN Idle, rec.error \in BOOLEAN,
           Packet(rec, remote), remote' = remote, cache' = cache
    PROVE  CacheInvariant'
<1>1. /\ RecallShape' /\ hook'[h] = rec
      /\ \A g \in Hooks : g # h => hook'[g] = hook[g]
  BY RecallMoves DEF CacheInvariant
<1>2. \A g \in Hooks : Packet(hook'[g], remote')
  BY <1>1 DEF CacheInvariant
<1>3. CacheWhole' BY DEF CacheInvariant, CacheWhole
<1> QED BY <1>1, <1>2, <1>3 DEF CacheInvariant

LEMMA CacheInit == Init => CacheInvariant
<1> SUFFICES ASSUME Init PROVE CacheInvariant OBVIOUS
<1>1. RecallShape BY DEF Init, RecallShape, Idle
<1>2. remote \subseteq Records BY DEF Init
<1>3. \A h \in Hooks : Packet(hook[h], remote) BY DEF Init, Packet, Idle
<1>4. CacheWhole BY DEF Init, CacheWhole
<1> QED BY <1>1, <1>2, <1>3, <1>4 DEF CacheInvariant

(* The steps before a packet is asked for, and the end of a hook.              *)
LEMMA CacheOutside ==
    ASSUME CacheInvariant, NEW h \in Hooks,
           Receive(h) \/ Load(h) \/ Save(h) \/ Decide(h) \/ Converse(h) \/ Kill(h)
    PROVE  CacheInvariant'
<1> USE DEF project, bounds
<1>0. remote' = remote /\ cache' = cache
  BY DEF Receive, Load, Save, Decide, Converse, Kill
<1>s. DOMAIN hook[h] = DOMAIN Idle /\ hook[h].error \in BOOLEAN
  BY DEF CacheInvariant, RecallShape
<1>1. CASE Receive(h)
  <2>1. PICK request \in Requests :
          Set(h, [Idle EXCEPT !.pc = "load", !.request = request, !.sources = setup, !.open = Unresolved, !.knew = remote])
    BY <1>1 DEF Receive
  <2> DEFINE rec == [Idle EXCEPT !.pc = "load", !.request = request, !.sources = setup, !.open = Unresolved, !.knew = remote]
  <2>2. DOMAIN rec = DOMAIN Idle /\ rec.error \in BOOLEAN /\ rec.pc = "load" BY DEF Idle
  <2>3. Set(h, rec) BY <2>1
  <2> HIDE DEF rec
  <2>4. Packet(rec, remote) BY <2>2 DEF Packet
  <2> QED BY <1>0, <2>2, <2>3, <2>4, PacketKeeps
<1>2. CASE Load(h)
  <2> DEFINE rec == [hook[h] EXCEPT !.pc = "save", !.read = saved.there,
                  !.state = [there |-> TRUE, line |-> saved.line,
                             tree |-> IF hook[h].request.event = "user_prompt" THEN saved.tree ELSE tree]]
  <2>1. Set(h, rec) BY <1>2 DEF Load
  <2>2. DOMAIN rec = DOMAIN Idle /\ rec.error \in BOOLEAN /\ rec.pc = "save" BY <1>s DEF Idle
  <2> HIDE DEF rec
  <2>3. Packet(rec, remote) BY <2>2 DEF Packet
  <2> QED BY <1>0, <2>1, <2>2, <2>3, PacketKeeps
<1>3. CASE Save(h)
  <2> DEFINE rec == [hook[h] EXCEPT !.pc = "decide"]
  <2>1. Set(h, rec) BY <1>3 DEF Save
  <2>2. DOMAIN rec = DOMAIN Idle /\ rec.error \in BOOLEAN /\ rec.pc = "decide" BY <1>s DEF Idle
  <2> HIDE DEF rec
  <2>3. Packet(rec, remote) BY <2>2 DEF Packet
  <2> QED BY <1>0, <2>1, <2>2, <2>3, PacketKeeps
<1>4. CASE Decide(h)
  <2>0. PICK ts, outcome, print :
          Set(h, [hook[h] EXCEPT !.pc = "converse", !.ledger = ts, !.outcome = outcome, !.print = print])
    BY <1>4, <1>s, DecideMoves
  <2> DEFINE rec == [hook[h] EXCEPT !.pc = "converse", !.ledger = ts, !.outcome = outcome, !.print = print]
  <2>1. Set(h, rec) BY <2>0
  <2>2. DOMAIN rec = DOMAIN Idle /\ rec.error \in BOOLEAN /\ rec.pc = "converse" BY <1>s DEF Idle
  <2> HIDE DEF rec
  <2>3. Packet(rec, remote) BY <2>2 DEF Packet
  <2> QED BY <1>0, <2>1, <2>2, <2>3, PacketKeeps
<1>5. CASE Converse(h)
  <2>0. PICK recalls \in Recalls(hook[h]) :
          Set(h, [hook[h] EXCEPT !.pc = IF recalls THEN "cache" ELSE "done"])
    BY <1>5 DEF Converse
  <2> DEFINE next == IF recalls THEN "cache" ELSE "done"
             rec == [hook[h] EXCEPT !.pc = next]
  <2>1. Set(h, rec) BY <2>0
  <2>2. DOMAIN rec = DOMAIN Idle /\ rec.error \in BOOLEAN /\ rec.pc \in {"cache", "done"} BY <1>s DEF Idle
  <2> HIDE DEF rec
  <2>3. Packet(rec, remote) BY <2>2 DEF Packet
  <2> QED BY <1>0, <2>1, <2>2, <2>3, PacketKeeps
<1>6. CASE Kill(h)
  <2>1. Set(h, Idle) BY <1>6 DEF Kill
  <2>2. Idle.error \in BOOLEAN /\ Packet(Idle, remote) BY DEF Idle, Packet
  <2> QED BY <1>0, <2>1, <2>2, PacketKeeps
<1> QED BY <1>1, <1>2, <1>3, <1>4, <1>5, <1>6

(* The packet is asked for, or what the cache has is taken.                    *)
LEMMA CacheLookup ==
    ASSUME CacheInvariant, NEW h \in Hooks, Lookup(h) PROVE CacheInvariant'
<1> USE DEF project, bounds
<1>0. remote' = remote /\ cache' = cache BY DEF Lookup
<1>s. DOMAIN hook[h] = DOMAIN Idle /\ hook[h].error \in BOOLEAN /\ remote \subseteq Records
  BY DEF CacheInvariant, RecallShape
<1>1. ASSUME NEW c \in cache, Set(h, [hook[h] EXCEPT !.pc = "done", !.records = c.records,
                                  !.heard = c.heard, !.short = c.short, !.line = c.line])
      PROVE  CacheInvariant'
  <2> DEFINE rec == [hook[h] EXCEPT !.pc = "done", !.records = c.records,
                                  !.heard = c.heard, !.short = c.short, !.line = c.line]
  <2>2. DOMAIN rec = DOMAIN Idle /\ rec.error \in BOOLEAN /\ rec.pc = "done" BY <1>s DEF Idle
  <2>3. Set(h, rec) BY <1>1
  <2> HIDE DEF rec
  <2>4. Packet(rec, remote) BY <2>2 DEF Packet
  <2> QED BY <1>0, <2>2, <2>3, <2>4, PacketKeeps
<1>2. ASSUME NEW match \in Matches, NEW asked,
             LET rec == [hook[h] EXCEPT !.match = match]
             IN  Set(h, [rec EXCEPT !.pc = "layers", !.pending = asked, !.line = rec.state.line,
                                    !.had = UNION {Finds(rec, layer) : layer \in asked}])
      PROVE  CacheInvariant'
  <2> DEFINE asks == [hook[h] EXCEPT !.match = match]
             had == UNION {Finds(asks, layer) : layer \in asked}
             rec == [asks EXCEPT !.pc = "layers", !.pending = asked, !.line = asks.state.line, !.had = had]
  <2>1. Set(h, rec) BY <1>2
  <2>2. DOMAIN asks = DOMAIN Idle /\ asks.error = hook[h].error BY <1>s DEF Idle
  <2> HIDE DEF asks
  <2>3. /\ DOMAIN rec = DOMAIN Idle /\ rec.error \in BOOLEAN /\ rec.pc = "layers"
        /\ rec.pending = asked /\ rec.had = had
        /\ rec.match = asks.match /\ rec.request = asks.request
    BY <1>s, <2>2 DEF Idle
  <2> HIDE DEF rec
  <2>4. Kinds(rec) = Kinds(asks) BY <2>3 DEF Kinds
  <2>5. ASSUME NEW r \in rec.had PROVE Found(rec, r, remote) /\ r.layer \in rec.pending
    <3>1. PICK layer \in asked : r \in Finds(asks, layer) BY <2>3
    <3> QED BY <2>3, <2>4, <3>1 DEF Finds, Found
  <2>6. Packet(rec, remote) BY <2>3, <2>5 DEF Packet
  <2> QED BY <1>0, <2>1, <2>3, <2>6, PacketKeeps
<1> QED BY <1>1, <1>2 DEF Lookup

(* A layer answers or fails, and the wiki and the code graph are asked.        *)
LEMMA CacheAsking ==
    ASSUME CacheInvariant, NEW h \in Hooks,
           (\E layer \in Layers : Answer(h, layer) \/ Refuse(h, layer)) \/ Retrieve(h)
    PROVE  CacheInvariant'
<1> USE DEF project, bounds
<1>0. remote' = remote /\ cache' = cache BY DEF Answer, Refuse, Retrieve
<1>s. /\ DOMAIN hook[h] = DOMAIN Idle /\ hook[h].error \in BOOLEAN
      /\ Packet(hook[h], remote)
  BY DEF CacheInvariant, RecallShape
<1>1. ASSUME NEW layer \in Layers, Answer(h, layer) PROVE CacheInvariant'
  <2>1. PICK given : Set(h, [hook[h] EXCEPT
                !.pending = @ \ {layer}, !.records = @ \cup {r \in given : Kept(r)},
                !.short = IF given = Finds(hook[h], layer) THEN @ ELSE @ \cup {layer}])
    BY <1>1 DEF Answer
  <2> DEFINE short == IF given = Finds(hook[h], layer) THEN hook[h].short ELSE hook[h].short \cup {layer}
             got == {r \in given : Kept(r)}
             rec == [hook[h] EXCEPT !.pending = @ \ {layer}, !.records = @ \cup got, !.short = short]
  <2>2. Set(h, rec) /\ hook[h].pc = "layers" BY <1>1, <2>1 DEF Answer, At
  <2>3. /\ DOMAIN rec = DOMAIN Idle /\ rec.error = hook[h].error /\ rec.pc = hook[h].pc
        /\ rec.pending = hook[h].pending \ {layer} /\ rec.had = hook[h].had
        /\ rec.records = hook[h].records \cup got /\ rec.short = short
        /\ rec.match = hook[h].match /\ rec.request = hook[h].request
    BY <1>s DEF Idle
  <2> HIDE DEF rec
  <2>4. \A r \in rec.had : Found(hook[h], r, remote) BY <1>s, <2>2, <2>3 DEF Packet
  <2>5. Kinds(rec) = Kinds(hook[h]) BY <2>3 DEF Kinds
  <2>6. \A r \in rec.had : Found(rec, r, remote) BY <2>3, <2>4, <2>5 DEF Found
  <2>7. ASSUME ~rec.error, NEW r \in rec.had, Kept(r)
        PROVE  r.layer \in rec.pending \/ r \in rec.records \/ r.layer \in rec.short
    <3>1. r.layer \in hook[h].pending \/ r \in hook[h].records \/ r.layer \in hook[h].short
      BY <1>s, <2>2, <2>3, <2>7 DEF Packet
    <3>2. CASE r.layer = layer /\ given = Finds(hook[h], layer)
      <4>1. r \in given BY <2>4, <2>7, <3>2 DEF Found, Finds
      <4> QED BY <2>3, <2>7, <4>1
    <3>3. CASE r.layer = layer /\ given # Finds(hook[h], layer) BY <2>3, <3>3
    <3>4. CASE r.layer # layer BY <2>3, <3>1, <3>4
    <3> QED BY <3>2, <3>3, <3>4
  <2>8. Packet(rec, remote) BY <2>2, <2>3, <2>6, <2>7 DEF Packet
  <2> QED BY <1>0, <1>s, <2>2, <2>3, <2>8, PacketKeeps
<1>2. ASSUME NEW layer \in Layers, Refuse(h, layer) PROVE CacheInvariant'
  <2> DEFINE rec == [hook[h] EXCEPT !.pending = @ \ {layer}, !.error = TRUE]
  <2>1. Set(h, rec) /\ hook[h].pc = "layers" BY <1>2 DEF Refuse, At
  <2>2. /\ DOMAIN rec = DOMAIN Idle /\ rec.error = TRUE /\ rec.pc = hook[h].pc
        /\ rec.had = hook[h].had /\ rec.match = hook[h].match /\ rec.request = hook[h].request
    BY <1>s DEF Idle
  <2> HIDE DEF rec
  <2>3. Kinds(rec) = Kinds(hook[h]) BY <2>2 DEF Kinds
  <2>4. \A r \in rec.had : Found(rec, r, remote) BY <1>s, <2>1, <2>2, <2>3 DEF Packet, Found
  <2>5. Packet(rec, remote) BY <2>1, <2>2, <2>4 DEF Packet
  <2> QED BY <1>0, <1>s, <2>1, <2>2, <2>5, PacketKeeps
<1>3. CASE Retrieve(h)
  <2> DEFINE named == hook[h].sources \ {"memory"}
             silent == Blank(Query(hook[h])) /\ "session_start" \notin Kinds(hook[h])
             asked == IF silent THEN {} ELSE named
  <2>1. PICK failed \in SUBSET asked : \E short \in SUBSET (asked \ failed) :
          Set(h, [hook[h] EXCEPT !.pc = "store", !.heard = asked \ failed, !.short = @ \cup short,
                                 !.error = @ \/ failed # {}])
    BY <1>3 DEF Retrieve
  <2>2. PICK short \in SUBSET (asked \ failed) :
          Set(h, [hook[h] EXCEPT !.pc = "store", !.heard = asked \ failed, !.short = @ \cup short,
                                 !.error = @ \/ failed # {}])
    BY <2>1
  <2>3. hook[h].pc = "layers" /\ hook[h].pending = {} BY <1>3 DEF Retrieve, At
  <2> DEFINE rec == [hook[h] EXCEPT !.pc = "store", !.heard = asked \ failed, !.short = @ \cup short,
                                    !.error = @ \/ failed # {}]
  <2>4. /\ DOMAIN rec = DOMAIN Idle /\ rec.pc = "store" /\ rec.heard = asked \ failed
        /\ rec.error = (hook[h].error \/ failed # {})
        /\ rec.had = hook[h].had /\ rec.records = hook[h].records
        /\ rec.short = hook[h].short \cup short /\ rec.sources = hook[h].sources
        /\ rec.request = hook[h].request /\ rec.state = hook[h].state
    BY <1>s DEF Idle
  <2>5. Set(h, rec) BY <2>2
  <2> HIDE DEF rec
  <2>6. rec.error \in BOOLEAN BY <2>4
  <2>7. ~rec.error => ~hook[h].error /\ failed = {} BY <2>4, <1>s
  <2>8. Kinds(rec) = Kinds(hook[h]) BY <2>4 DEF Kinds
  <2>9. Query(rec) = Query(hook[h]) BY <2>4, <2>8 DEF Query
  <2>10. ~rec.error /\ ~Blank(Query(rec)) => rec.sources \ {"memory"} \subseteq rec.heard
    BY <2>4, <2>7, <2>9
  <2>11. ~rec.error => \A r \in rec.had : Kept(r) => r \in rec.records \/ r.layer \in rec.short
    BY <1>s, <2>3, <2>4, <2>7 DEF Packet
  <2>12. Packet(rec, remote) BY <2>4, <2>10, <2>11 DEF Packet
  <2> QED BY <1>0, <2>4, <2>5, <2>6, <2>12, PacketKeeps
<1> QED BY <1>1, <1>2, <1>3

(* Only a whole packet is kept.                                                *)
LEMMA CachePut ==
    ASSUME CacheInvariant, NEW h \in Hooks, Put(h) PROVE CacheInvariant'
<1> USE DEF project, bounds
<1>s. /\ DOMAIN hook[h] = DOMAIN Idle /\ hook[h].error \in BOOLEAN
      /\ Packet(hook[h], remote) /\ hook[h].pc = "store" /\ remote' = remote
  BY DEF CacheInvariant, RecallShape, Put, At
<1> DEFINE rec == [hook[h] EXCEPT !.pc = "done"]
<1>1. Set(h, rec) BY DEF Put
<1>2. DOMAIN rec = DOMAIN Idle /\ rec.error \in BOOLEAN /\ rec.pc = "done" BY <1>s DEF Idle
<1> HIDE DEF rec
<1>3. /\ RecallShape' /\ hook'[h] = rec
      /\ \A g \in Hooks : g # h => hook'[g] = hook[g]
  BY <1>1, <1>2, RecallMoves DEF CacheInvariant
<1>4. \A g \in Hooks : Packet(hook'[g], remote')
  <2>1. Packet(rec, remote) BY <1>2 DEF Packet
  <2> QED BY <2>1, <1>s, <1>3 DEF CacheInvariant
<1>5. CacheWhole'
  <2> DEFINE row == [key |-> Key(hook[h]), sources |-> hook[h].sources, records |-> hook[h].records,
                     heard |-> hook[h].heard, short |-> hook[h].short, line |-> hook[h].line,
                     had |-> hook[h].had]
  <2>1. cache' = IF Storable(hook[h]) THEN {c \in cache : c.key # row.key} \cup {row} ELSE cache
    BY DEF Put
  <2>2. CASE hook[h].error BY <2>1, <2>2 DEF CacheInvariant, CacheWhole, Storable
  <2>3. CASE ~hook[h].error
    <3>1. /\ row.had = hook[h].had /\ row.records = hook[h].records /\ row.heard = hook[h].heard
          /\ row.short = hook[h].short /\ row.sources = hook[h].sources
          /\ row.key.query = Query(hook[h])
      BY DEF Key
    <3> HIDE DEF row
    <3>2. /\ \A r \in row.had : Kept(r) => r \in row.records \/ r.layer \in row.short
          /\ ~Blank(row.key.query) => row.sources \ {"memory"} \subseteq row.heard
      BY <1>s, <2>3, <3>1 DEF Packet
    <3>3. \A c \in cache' : c \in cache \/ c = row BY <2>1
    <3> QED BY <3>2, <3>3 DEF CacheInvariant, CacheWhole
  <2> QED BY <2>2, <2>3
<1> QED BY <1>s, <1>3, <1>4, <1>5 DEF CacheInvariant

LEMMA CacheStep == CacheInvariant /\ [Next]_vars => CacheInvariant'
<1> SUFFICES ASSUME CacheInvariant, [Next]_vars PROVE CacheInvariant' OBVIOUS
<1> USE DEF project, bounds
<1>1. ASSUME NEW t \in Tasks, TaskEvent(t) PROVE CacheInvariant'
  <2>1. PICK kept : hook' = [h \in Hooks |-> [hook[h] EXCEPT !.open = @ \ kept]]
    BY <1>1 DEF TaskEvent
  <2>2. remote' = remote /\ cache' = cache BY <1>1 DEF TaskEvent
  <2>3. ASSUME NEW h \in Hooks
        PROVE  /\ DOMAIN hook'[h] = DOMAIN Idle /\ hook'[h].error \in BOOLEAN
               /\ Packet(hook'[h], remote)
    <3> DEFINE rec == [hook[h] EXCEPT !.open = @ \ kept]
    <3>1. DOMAIN hook[h] = DOMAIN Idle /\ hook[h].error \in BOOLEAN /\ Packet(hook[h], remote)
      BY DEF CacheInvariant, RecallShape
    <3>2. /\ DOMAIN rec = DOMAIN Idle /\ rec.error = hook[h].error /\ rec.pc = hook[h].pc
          /\ rec.pending = hook[h].pending /\ rec.had = hook[h].had
          /\ rec.records = hook[h].records /\ rec.heard = hook[h].heard /\ rec.short = hook[h].short
          /\ rec.sources = hook[h].sources /\ rec.match = hook[h].match
          /\ rec.request = hook[h].request /\ rec.state = hook[h].state
      BY <3>1 DEF Idle
    <3>3. hook'[h] = rec BY <2>1
    <3> HIDE DEF rec
    <3>4. Kinds(rec) = Kinds(hook[h]) BY <3>2 DEF Kinds
    <3>5. Query(rec) = Query(hook[h]) BY <3>2, <3>4 DEF Query
    <3>6. \A r : Found(rec, r, remote) <=> Found(hook[h], r, remote) BY <3>2, <3>4 DEF Found
    <3>7. Packet(rec, remote) BY <3>1, <3>2, <3>5, <3>6 DEF Packet
    <3> QED BY <3>1, <3>2, <3>3, <3>7
  <2>4. RecallShape' BY <2>1, <2>3 DEF RecallShape
  <2> QED BY <2>2, <2>3, <2>4 DEF CacheInvariant, CacheWhole
<1>2. ASSUME Edit \/ Work \/ Provision \/ UNCHANGED vars PROVE CacheInvariant'
  <2>1. hook' = hook /\ remote' = remote /\ cache' = cache BY <1>2 DEF Edit, Work, Provision, vars
  <2> QED BY <2>1 DEF CacheInvariant, CacheWhole, RecallShape
<1>3. ASSUME NEW r \in Records, Capture(r) PROVE CacheInvariant'
  <2>1. hook' = hook /\ remote' = remote \cup {r} /\ cache' = cache BY <1>3 DEF Capture
  <2>2. \A h \in Hooks : Packet(hook'[h], remote') BY <2>1 DEF CacheInvariant, Packet, Found
  <2> QED BY <2>1, <2>2 DEF CacheInvariant, CacheWhole, RecallShape
<1>4. ASSUME NEW h \in Hooks,
             \/ Receive(h) \/ Load(h) \/ Save(h) \/ Decide(h) \/ Converse(h) \/ Kill(h)
             \/ Lookup(h) \/ Put(h) \/ Retrieve(h)
             \/ \E layer \in Layers : Answer(h, layer) \/ Refuse(h, layer)
      PROVE  CacheInvariant'
  BY <1>4, CacheOutside, CacheLookup, CacheAsking, CachePut
<1> QED BY <1>1, <1>2, <1>3, <1>4 DEF Next

(* However many hooks ask for packets side by side, layers fail one by one and *)
(* records arrive between them, a packet in the cache lacks no record that was *)
(* found when it was asked for but those of a layer that left something out    *)
(* without an error, and the wiki and the graph have answered as far as they   *)
(* are set up (Handle keeps a packet only without an error).                   *)
THEOREM CacheWholeHolds == Spec => []CacheWhole
<1>1. Spec => []CacheInvariant BY CacheInit, CacheStep, PTL DEF Spec
<1>2. CacheInvariant => CacheWhole BY DEF CacheInvariant
<1> QED BY <1>1, <1>2, PTL

-------------------------------------------------------------------------------
(* With no more tasks than ListTasks looks at, it returns every unresolved one. *)
LEMMA AllListed ==
    ASSUME Ledger, IsFiniteSet(Tasks), Cardinality(Tasks) <= Limit
    PROVE  ListTasks = Unresolved
<1>1. Unresolved \subseteq Tasks BY DEF Unresolved
<1>2. ASSUME NEW t \in Unresolved
      PROVE  Cardinality({u \in Unresolved : tasks[u].at > tasks[t].at}) < Limit
  <2> DEFINE newer == {u \in Unresolved : tasks[u].at > tasks[t].at}
  <2>1. t \in Tasks /\ tasks[t].at \in Nat BY <1>1 DEF Ledger
  <2>2. newer \subseteq Tasks \ {t} BY <1>1, <2>1
  <2>3. IsFiniteSet(Tasks \ {t}) /\ Cardinality(Tasks \ {t}) = Cardinality(Tasks) - 1
    BY <2>1, FS_RemoveElement
  <2>4. IsFiniteSet(newer) /\ Cardinality(newer) <= Cardinality(Tasks \ {t})
    BY <2>2, <2>3, FS_Subset
  <2>5. Cardinality(newer) \in Nat /\ Cardinality(Tasks) \in Nat /\ Limit \in Nat
    BY <2>4, FS_CardinalityType, RecallConstants
  <2> HIDE DEF newer
  <2>6. Cardinality(newer) < Limit BY <2>3, <2>4, <2>5
  <2> QED BY <2>6 DEF newer
<1> QED BY <1>2 DEF ListTasks

(* An outcome of the gate that sends nobody to earlier work misses none.       *)
LEMMA GateAnnounces ==
    ASSUME NEW rec, NEW ts, NEW t \in ts, Gate(rec, ts) \in Sufficient
    PROVE  t # rec.request.scope.task /\ ~Strong(t, rec.request.scope)
<1>1. ~(~rec.read \/ rec.state.tree = None \/ rec.request.historical)
  BY DEF Gate, Sufficient
<1>2. ts # {} OBVIOUS
<1>3. rec.request.scope.task \notin ts BY <1>1, <1>2 DEF Gate, Sufficient
<1>4. CASE ~Structured(rec.request.scope)
  BY <1>3, <1>4 DEF Structured, Strong, StrongOf
<1>5. CASE Structured(rec.request.scope)
  BY <1>1, <1>2, <1>3, <1>5 DEF Gate, Sufficient
<1> QED BY <1>4, <1>5

(* A hook moves on while the ledger stays.                                     *)
LEMMA GatedKeeps ==
    ASSUME GateInvariant, NEW h \in Hooks, NEW rec, Set(h, rec),
           DOMAIN rec = DOMAIN Idle, rec.error \in BOOLEAN,
           Gated(rec, Unresolved), tasks' = tasks, changes' = changes
    PROVE  GateInvariant'
<1>1. /\ RecallShape' /\ hook'[h] = rec
      /\ \A g \in Hooks : g # h => hook'[g] = hook[g]
  BY RecallMoves DEF GateInvariant
<1>2. Unresolved' = Unresolved BY DEF Unresolved
<1>3. \A g \in Hooks : Gated(hook'[g], Unresolved')
  BY <1>1, <1>2 DEF GateInvariant
<1>4. Ledger' BY DEF GateInvariant, Ledger
<1> QED BY <1>1, <1>3, <1>4 DEF GateInvariant

(* A hook that is past the gate, and keeps what it was told there.             *)
LEMMA GatedPast ==
    ASSUME GateInvariant, NEW h \in Hooks, NEW rec, Set(h, rec),
           DOMAIN rec = DOMAIN Idle, rec.error \in BOOLEAN,
           rec.outcome = hook[h].outcome, rec.open = hook[h].open, rec.request = hook[h].request,
           rec.pc \in {"load", "save", "decide"} => hook[h].pc \in {"load", "save", "decide"},
           tasks' = tasks, changes' = changes
    PROVE  GateInvariant'
<1>1. Gated(rec, Unresolved) BY DEF GateInvariant, Gated, Announced
<1> QED BY <1>1, GatedKeeps

LEMMA GateInit == Init => GateInvariant
<1> SUFFICES ASSUME Init PROVE GateInvariant OBVIOUS
<1>1. RecallShape BY DEF Init, RecallShape, Idle
<1>2. Ledger BY DEF Init, Ledger
<1>3. \A h \in Hooks : Gated(hook[h], Unresolved) BY DEF Init, Gated, Announced, Idle
<1> QED BY <1>1, <1>2, <1>3 DEF GateInvariant

(* The steps up to the gate.                                                   *)
LEMMA GateBefore ==
    ASSUME GateInvariant, NEW h \in Hooks, Receive(h) \/ Load(h) \/ Save(h)
    PROVE  GateInvariant'
<1> USE DEF project, bounds
<1>0. tasks' = tasks /\ changes' = changes BY DEF Receive, Load, Save
<1>s. DOMAIN hook[h] = DOMAIN Idle /\ hook[h].error \in BOOLEAN
  BY DEF GateInvariant, RecallShape
<1>1. CASE Receive(h)
  <2>1. PICK request \in Requests :
          Set(h, [Idle EXCEPT !.pc = "load", !.request = request, !.sources = setup, !.open = Unresolved, !.knew = remote])
    BY <1>1 DEF Receive
  <2> DEFINE rec == [Idle EXCEPT !.pc = "load", !.request = request, !.sources = setup, !.open = Unresolved, !.knew = remote]
  <2>2. /\ DOMAIN rec = DOMAIN Idle /\ rec.error \in BOOLEAN /\ rec.pc = "load"
        /\ rec.open = Unresolved /\ rec.outcome = None
    BY DEF Idle
  <2>3. Set(h, rec) BY <2>1
  <2> HIDE DEF rec
  <2>4. Gated(rec, Unresolved)
    BY <2>2, RecallConstants DEF Gated, Announced, Outcomes
  <2> QED BY <1>0, <2>2, <2>3, <2>4, GatedKeeps
<1>2. CASE Load(h)
  <2> DEFINE rec == [hook[h] EXCEPT !.pc = "save", !.read = saved.there,
                  !.state = [there |-> TRUE, line |-> saved.line,
                             tree |-> IF hook[h].request.event = "user_prompt" THEN saved.tree ELSE tree]]
  <2>1. Set(h, rec) /\ hook[h].pc = "load" BY <1>2 DEF Load, At
  <2>2. /\ DOMAIN rec = DOMAIN Idle /\ rec.error \in BOOLEAN /\ rec.pc = "save"
        /\ rec.outcome = hook[h].outcome /\ rec.open = hook[h].open /\ rec.request = hook[h].request
    BY <1>s DEF Idle
  <2> HIDE DEF rec
  <2> QED BY <1>0, <2>1, <2>2, GatedPast
<1>3. CASE Save(h)
  <2> DEFINE rec == [hook[h] EXCEPT !.pc = "decide"]
  <2>1. Set(h, rec) /\ hook[h].pc = "save" BY <1>3 DEF Save, At
  <2>2. /\ DOMAIN rec = DOMAIN Idle /\ rec.error \in BOOLEAN /\ rec.pc = "decide"
        /\ rec.outcome = hook[h].outcome /\ rec.open = hook[h].open /\ rec.request = hook[h].request
    BY <1>s DEF Idle
  <2> HIDE DEF rec
  <2> QED BY <1>0, <2>1, <2>2, GatedPast
<1> QED BY <1>1, <1>2, <1>3

(* The gate itself.                                                            *)
LEMMA GateDecide ==
    ASSUME GateInvariant, IsFiniteSet(Tasks), Cardinality(Tasks) <= Limit,
           NEW h \in Hooks, Decide(h)
    PROVE  GateInvariant'
<1> USE DEF project, bounds
<1>1. ListTasks = Unresolved BY AllListed DEF GateInvariant
<1>2. tasks' = tasks /\ changes' = changes /\ hook[h].pc = "decide" BY DEF Decide, At
<1>3. DOMAIN hook[h] = DOMAIN Idle /\ hook[h].error \in BOOLEAN /\ hook[h].open \subseteq Unresolved
  BY DEF GateInvariant, RecallShape, Gated
<1>4. ASSUME Set(h, [hook[h] EXCEPT !.pc = "converse", !.ledger = Unresolved,
                       !.outcome = Gate(hook[h], Unresolved), !.print = Fingerprint(hook[h], Unresolved)])
      PROVE  GateInvariant'
  <2> DEFINE rec == [hook[h] EXCEPT !.pc = "converse", !.ledger = Unresolved,
                       !.outcome = Gate(hook[h], Unresolved), !.print = Fingerprint(hook[h], Unresolved)]
  <2>1. Set(h, rec) BY <1>4
  <2>2. /\ DOMAIN rec = DOMAIN Idle /\ rec.error \in BOOLEAN /\ rec.pc = "converse"
        /\ rec.outcome = Gate(hook[h], Unresolved) /\ rec.open = hook[h].open
        /\ rec.request = hook[h].request
    BY <1>3 DEF Idle
  <2> HIDE DEF rec
  <2>3. Announced(rec) BY <1>3, <2>2, GateAnnounces DEF Announced
  <2>4. Gated(rec, Unresolved) BY <1>3, <2>2, <2>3 DEF Gated
  <2> QED BY <1>2, <2>1, <2>2, <2>4, GatedKeeps
<1>5. ASSUME Set(h, [hook[h] EXCEPT !.pc = "converse", !.outcome = "remote_recovery_required",
                       !.print = Fingerprint(hook[h], {})])
      PROVE  GateInvariant'
  <2> DEFINE rec == [hook[h] EXCEPT !.pc = "converse", !.outcome = "remote_recovery_required",
                       !.print = Fingerprint(hook[h], {})]
  <2>1. Set(h, rec) BY <1>5
  <2>2. /\ DOMAIN rec = DOMAIN Idle /\ rec.error \in BOOLEAN /\ rec.pc = "converse"
        /\ rec.outcome = "remote_recovery_required" /\ rec.open = hook[h].open
    BY <1>3 DEF Idle
  <2> HIDE DEF rec
  <2>3. Gated(rec, Unresolved) BY <1>3, <2>2 DEF Gated, Announced, Sufficient
  <2> QED BY <1>2, <2>1, <2>2, <2>3, GatedKeeps
<1> QED BY <1>1, <1>4, <1>5 DEF Decide

(* The steps after it.                                                         *)
LEMMA GateAfter ==
    ASSUME GateInvariant, NEW h \in Hooks,
           \/ Converse(h) \/ Lookup(h) \/ Retrieve(h) \/ Put(h) \/ Kill(h)
           \/ \E layer \in Layers : Answer(h, layer) \/ Refuse(h, layer)
    PROVE  GateInvariant'
<1> USE DEF project, bounds
<1>0. tasks' = tasks /\ changes' = changes
  BY DEF Converse, Lookup, Retrieve, Put, Kill, Answer, Refuse
<1>s. DOMAIN hook[h] = DOMAIN Idle /\ hook[h].error \in BOOLEAN
  BY DEF GateInvariant, RecallShape
<1> DEFINE Past(rec) ==
      /\ DOMAIN rec = DOMAIN Idle /\ rec.error \in BOOLEAN
      /\ rec.pc \in {"cache", "done", "layers", "store"}
      /\ rec.outcome = hook[h].outcome /\ rec.open = hook[h].open /\ rec.request = hook[h].request
<1>p. ASSUME NEW rec, Set(h, rec), Past(rec) PROVE GateInvariant'
  <2>1. rec.pc \notin {"load", "save", "decide"} BY <1>p
  <2> QED BY <1>0, <1>p, <2>1, GatedPast
<1>1. CASE Converse(h)
  <2>0. PICK recalls \in Recalls(hook[h]) :
          Set(h, [hook[h] EXCEPT !.pc = IF recalls THEN "cache" ELSE "done"])
    BY <1>1 DEF Converse
  <2> DEFINE next == IF recalls THEN "cache" ELSE "done"
             rec == [hook[h] EXCEPT !.pc = next]
  <2>1. Set(h, rec) BY <2>0
  <2>2. Past(rec) BY <1>s DEF Idle
  <2> QED BY <2>1, <2>2, <1>p
<1>2. CASE Lookup(h)
  <2>1. ASSUME NEW c, Set(h, [hook[h] EXCEPT !.pc = "done", !.records = c.records,
                                    !.heard = c.heard, !.short = c.short, !.line = c.line])
        PROVE  GateInvariant'
    <3> DEFINE rec == [hook[h] EXCEPT !.pc = "done", !.records = c.records,
                                    !.heard = c.heard, !.short = c.short, !.line = c.line]
    <3>2. Past(rec) BY <1>s DEF Idle
    <3> QED BY <2>1, <3>2, <1>p
  <2>2. ASSUME NEW match, NEW asked, NEW had, NEW line,
               Set(h, [[hook[h] EXCEPT !.match = match] EXCEPT
                         !.pc = "layers", !.pending = asked, !.line = line, !.had = had])
        PROVE  GateInvariant'
    <3> DEFINE rec == [[hook[h] EXCEPT !.match = match] EXCEPT
                         !.pc = "layers", !.pending = asked, !.line = line, !.had = had]
    <3>2. Past(rec) BY <1>s DEF Idle
    <3> QED BY <2>2, <3>2, <1>p
  <2> QED BY <1>2, <2>1, <2>2 DEF Lookup
<1>3. CASE Retrieve(h)
  <2>1. PICK failed, heard, short :
          Set(h, [hook[h] EXCEPT !.pc = "store", !.heard = heard, !.short = @ \cup short,
                                 !.error = @ \/ failed # {}])
    BY <1>3 DEF Retrieve
  <2> DEFINE rec == [hook[h] EXCEPT !.pc = "store", !.heard = heard, !.short = @ \cup short,
                                    !.error = @ \/ failed # {}]
  <2>2. Past(rec) BY <1>s DEF Idle
  <2> QED BY <2>1, <2>2, <1>p
<1>4. CASE Put(h)
  <2> DEFINE rec == [hook[h] EXCEPT !.pc = "done"]
  <2>1. Set(h, rec) BY <1>4 DEF Put
  <2>2. Past(rec) BY <1>s DEF Idle
  <2> QED BY <2>1, <2>2, <1>p
<1>5. CASE Kill(h)
  <2>1. Set(h, Idle) BY <1>5 DEF Kill
  <2>2. /\ Idle.error \in BOOLEAN /\ Idle.pc = "idle" /\ Idle.outcome = None /\ Idle.open = {}
    BY DEF Idle
  <2>3. Gated(Idle, Unresolved) BY <2>2 DEF Gated, Announced
  <2> QED BY <1>0, <2>1, <2>2, <2>3, GatedKeeps
<1>6. ASSUME NEW layer \in Layers, Answer(h, layer) PROVE GateInvariant'
  <2>1. PICK pending, records, short :
          Set(h, [hook[h] EXCEPT !.pending = pending, !.records = records, !.short = short])
    BY <1>6, AnswerMoves
  <2> DEFINE rec == [hook[h] EXCEPT !.pending = pending, !.records = records, !.short = short]
  <2>2. hook[h].pc = "layers" BY <1>6 DEF Answer, At
  <2>3. Past(rec) BY <1>s, <2>2 DEF Idle
  <2> QED BY <2>1, <2>3, <1>p
<1>7. ASSUME NEW layer \in Layers, Refuse(h, layer) PROVE GateInvariant'
  <2> DEFINE rec == [hook[h] EXCEPT !.pending = @ \ {layer}, !.error = TRUE]
  <2>1. Set(h, rec) /\ hook[h].pc = "layers" BY <1>7 DEF Refuse, At
  <2>2. Past(rec) BY <1>s, <2>1 DEF Idle
  <2> QED BY <2>1, <2>2, <1>p
<1> QED BY <1>1, <1>2, <1>3, <1>4, <1>5, <1>6, <1>7

(* A task is opened, worked on or closed: no hook goes on for one that is not  *)
(* unresolved any more.                                                        *)
LEMMA GateTask ==
    ASSUME GateInvariant, NEW t \in Tasks, TaskEvent(t) PROVE GateInvariant'
<1>1. PICK status \in {"open", "closed"} : tasks' = [tasks EXCEPT ![t] = [status |-> status, at |-> changes + 1]]
  BY DEF TaskEvent
<1>2. /\ changes \in Nat /\ changes' = changes + 1
      /\ hook' = [h \in Hooks |-> [hook[h] EXCEPT !.open = @ \ (IF tasks'[t].status = "open" THEN {} ELSE {t})]]
  BY DEF TaskEvent, Change, GateInvariant, Ledger
<1>3. PICK gone : gone = IF tasks'[t].status = "open" THEN {} ELSE {t} OBVIOUS
<1>4. Ledger' BY <1>1, <1>2 DEF GateInvariant, Ledger
<1>5. \A u \in Tasks : u # t => tasks'[u] = tasks[u] BY <1>1 DEF GateInvariant, Ledger
<1>6. Unresolved \ gone \subseteq Unresolved' BY <1>3, <1>5 DEF Unresolved
<1>7. ASSUME NEW h \in Hooks
      PROVE  /\ DOMAIN hook'[h] = DOMAIN Idle /\ hook'[h].error \in BOOLEAN
             /\ Gated(hook'[h], Unresolved')
  <2> DEFINE rec == [hook[h] EXCEPT !.open = @ \ gone]
  <2>1. DOMAIN hook[h] = DOMAIN Idle /\ hook[h].error \in BOOLEAN /\ Gated(hook[h], Unresolved)
    BY DEF GateInvariant, RecallShape
  <2>2. /\ DOMAIN rec = DOMAIN Idle /\ rec.error = hook[h].error /\ rec.pc = hook[h].pc
        /\ rec.open = hook[h].open \ gone /\ rec.outcome = hook[h].outcome
        /\ rec.request = hook[h].request
    BY <2>1 DEF Idle
  <2>3. hook'[h] = rec BY <1>2, <1>3
  <2> HIDE DEF rec
  <2>4. Gated(rec, Unresolved') BY <2>1, <2>2, <1>6 DEF Gated, Announced
  <2> QED BY <2>1, <2>2, <2>3, <2>4
<1>8. RecallShape' BY <1>2, <1>7 DEF RecallShape
<1> QED BY <1>4, <1>7, <1>8 DEF GateInvariant

LEMMA GateStep ==
    ASSUME IsFiniteSet(Tasks), Cardinality(Tasks) <= Limit
    PROVE  GateInvariant /\ [Next]_vars => GateInvariant'
<1> SUFFICES ASSUME GateInvariant, [Next]_vars PROVE GateInvariant' OBVIOUS
<1>1. ASSUME Edit \/ Work \/ Provision \/ (\E r \in Records : Capture(r)) PROVE GateInvariant'
  <2>1. hook' = hook /\ tasks' = tasks /\ changes' = changes + 1
    BY <1>1 DEF Edit, Work, Provision, Capture, Change
  <2> QED BY <2>1 DEF GateInvariant, Gated, RecallShape, Ledger, Unresolved
<1>2. CASE UNCHANGED vars
  <2>1. hook' = hook /\ tasks' = tasks /\ changes' = changes BY <1>2 DEF vars
  <2> QED BY <2>1 DEF GateInvariant, Gated, RecallShape, Ledger, Unresolved
<1>3. ASSUME NEW h \in Hooks,
             \/ Receive(h) \/ Load(h) \/ Save(h) \/ Decide(h) \/ Converse(h) \/ Kill(h)
             \/ Lookup(h) \/ Put(h) \/ Retrieve(h)
             \/ \E layer \in Layers : Answer(h, layer) \/ Refuse(h, layer)
      PROVE  GateInvariant'
  BY <1>3, GateBefore, GateDecide, GateAfter
<1> QED BY <1>1, <1>2, <1>3, GateTask DEF Next

(* As long as there are no more tasks than ListTasks looks at, a hook that is  *)
(* not sent to earlier work has missed none, however tasks are opened, worked  *)
(* on and closed between its request and its answer (EvaluateResumeGate).      *)
THEOREM OverlapAnnouncedHolds ==
    ASSUME IsFiniteSet(Tasks), Cardinality(Tasks) <= Limit
    PROVE  Spec => []OverlapAnnounced
<1>1. Spec => []GateInvariant BY GateInit, GateStep, PTL DEF Spec
<1>2. GateInvariant => OverlapAnnounced
  BY DEF GateInvariant, Gated, Announced, OverlapAnnounced
<1> QED BY <1>1, <1>2, PTL

================================================================================
