------------------------ MODULE SnapshotPipelineProofs ------------------------
(***************************************************************************)
(* Theorems about SnapshotPipeline, for any snapshots, findings, checks    *)
(* and crashes.                                                            *)
(*                                                                         *)
(* With any number of workers: what the e-mails and the deliveries         *)
(* promise.  A finding that is not committed is in the open transaction of *)
(* one worker, and only that worker ever sends it.                         *)
(*                                                                         *)
(* With one worker: a snapshot is started after all that were stored when  *)
(* it began to arrive, so they make a queue; and each is run once, so its  *)
(* findings, and the alerts owed for them, are those of the run at hand    *)
(* until it is done.                                                       *)
(***************************************************************************)
EXTENDS SnapshotPipeline, FiniteSetTheorems, TLAPS

\* The part of the type invariant the argument needs.
Shape ==
    /\ finding \in [Findings -> {"absent", "open", "resolved"}]
    /\ channels \subseteq Channels
    /\ delivered \subseteq Deliveries
    /\ emails \in [Pairs -> Nat]
    /\ DOMAIN worker = Workers
    /\ \A w \in Workers :
        /\ DOMAIN worker[w] = {"stage", "batch", "hand", "prev", "next", "made", "sent", "to"}
        /\ worker[w].stage \in Stages
        /\ worker[w].made \subseteq Findings
        /\ worker[w].sent \subseteq Deliveries
        /\ worker[w].to \subseteq Channels

\* No e-mail about the finding has left and no delivery of it is recorded.
Unmailed(f) ==
    /\ \A c \in Channels : emails[<<f, c>>] = 0
    /\ \A d \in delivered : d[1] # f

AbsentIsUnmailed == \A f \in Findings : finding[f] = "absent" => Unmailed(f)

\* No two workers have a finding.
MadeOnce == \A v, w \in Workers : v # w => worker[v].made \intersect worker[w].made = {}

\* The e-mails of what a worker is sending are those it remembers.
SendsItsOwn(a) ==
    /\ \A d \in a.sent : d[1] \in a.made
    /\ \A f \in a.made : \A d \in delivered : d[1] # f
    /\ \A f \in a.made, c \in Channels :
        /\ emails[<<f, c>>] = IF <<f, c, "sent">> \in a.sent THEN 1 ELSE 0
        /\ ~(<<f, c, "sent">> \in a.sent /\ <<f, c, "failed">> \in a.sent)

\* What a worker has made and sent, by the stage of its cycle.
ByStage(a) ==
    /\ a.stage \in {"idle", "mark", "load"} => a.made = {} /\ a.sent = {}
    /\ a.stage = "check" => a.sent = {} /\ \A f \in a.made : finding[f] = "absent"
    /\ a.stage \in {"alert", "send", "finish"} => \A f \in a.made : finding[f] # "absent"
    /\ a.stage = "alert" => a.sent = {} /\ \A f \in a.made : Unmailed(f)
    /\ a.stage = "send" => SendsItsOwn(a)

\* The inductive invariant with any number of workers.
IndInv ==
    /\ Shape
    /\ AbsentIsUnmailed
    /\ MadeOnce
    /\ \A w \in Workers : ByStage(worker[w])
    /\ EmailedAtMostOnce
    /\ DeliveryTruthful

-----------------------------------------------------------------------------

LEMMA InitHolds == Init => IndInv
<1>. SUFFICES ASSUME Init PROVE IndInv
    OBVIOUS
<1>1. \A w \in Workers : worker[w] = Resting
    BY DEF Init
<1>2. Shape
    BY <1>1 DEF Init, Shape, Resting, Stages
<1>3. AbsentIsUnmailed
    BY DEF Init, AbsentIsUnmailed, Unmailed, Pairs
<1>4. MadeOnce /\ \A w \in Workers : ByStage(worker[w])
    BY <1>1 DEF MadeOnce, ByStage, Resting
<1>5. EmailedAtMostOnce /\ DeliveryTruthful
    BY DEF Init, EmailedAtMostOnce, DeliveryTruthful
<1>. QED
    BY <1>2, <1>3, <1>4, <1>5 DEF IndInv

\* A worker goes on without findings or e-mails changing.
LEMMA WorkerKept ==
    ASSUME IndInv, UNCHANGED <<finding, delivered, emails>>, channels' \subseteq Channels,
           NEW w \in Workers, NEW a, worker' = [worker EXCEPT ![w] = a],
           DOMAIN a = {"stage", "batch", "hand", "prev", "next", "made", "sent", "to"},
           a.stage \in Stages, a.made \subseteq Findings, a.sent \subseteq Deliveries,
           a.to \subseteq Channels, ByStage(a),
           \A v \in Workers \ {w} : worker[v].made \intersect a.made = {}
    PROVE  IndInv'
<1>1. DOMAIN worker' = Workers /\ \A v \in Workers : worker'[v] = IF v = w THEN a ELSE worker[v]
    BY DEF IndInv, Shape
<1>2. Shape'
    BY <1>1 DEF IndInv, Shape
<1>3. MadeOnce'
    BY <1>1 DEF IndInv, MadeOnce
<1>4. ASSUME NEW v \in Workers PROVE ByStage(worker[v])'
    <2>1. PICK b : b = worker'[v] /\ ByStage(b)
        BY <1>1 DEF IndInv
    <2>. QED
        BY <2>1 DEF ByStage, SendsItsOwn, Unmailed
<1>5. AbsentIsUnmailed' /\ EmailedAtMostOnce' /\ DeliveryTruthful'
    BY DEF IndInv, AbsentIsUnmailed, Unmailed, EmailedAtMostOnce, DeliveryTruthful
<1>. QED
    BY <1>2, <1>3, <1>4, <1>5 DEF IndInv

LEMMA RestingIsSound ==
    /\ DOMAIN Resting = {"stage", "batch", "hand", "prev", "next", "made", "sent", "to"}
    /\ Resting.stage = "idle" /\ Resting.made = {} /\ Resting.sent = {} /\ Resting.to = {}
    BY DEF Resting

\* Another cycle, or the rest of the batch: nothing is in the transaction.
LEMMA CycleKeeps ==
    ASSUME IndInv, NEW w \in Workers, ListQueued(w) \/ Finish(w)
    PROVE  IndInv'
<1>. DEFINE Rested(b) ==
        /\ DOMAIN b = {"stage", "batch", "hand", "prev", "next", "made", "sent", "to"}
        /\ b.stage \in {"idle", "mark"} /\ b.made = {} /\ b.sent = {} /\ b.to = {}
<1>1. PICK a : Rested(a) /\ worker' = [worker EXCEPT ![w] = a]
    <2>1. CASE ListQueued(w)
        <3>. DEFINE b == [Resting EXCEPT !.stage = "mark", !.batch = QueuedFor(w)]
        <3>1. worker' = [worker EXCEPT ![w] = b]
            BY <2>1 DEF ListQueued
        <3>2. Rested(b)
            BY RestingIsSound
        <3>. HIDE DEF b
        <3>. QED
            BY <3>1, <3>2
    <2>2. CASE Finish(w)
        <3>. DEFINE rest == worker[w].batch
                    next == IF rest = {} THEN "idle" ELSE "mark"
                    b == [Resting EXCEPT !.stage = next, !.batch = rest]
        <3>1. worker' = [worker EXCEPT ![w] = b]
            BY <2>2 DEF Finish
        <3>2. Rested(b)
            BY RestingIsSound
        <3>. HIDE DEF b
        <3>. QED
            BY <3>1, <3>2
    <2>. QED
        BY <2>1, <2>2
<1>2. /\ DOMAIN a = {"stage", "batch", "hand", "prev", "next", "made", "sent", "to"}
      /\ a.stage \in {"idle", "mark"} /\ a.made = {} /\ a.sent = {} /\ a.to = {}
    BY <1>1
<1>3. UNCHANGED <<finding, delivered, emails, channels>>
    BY DEF ListQueued, Finish, dbVars
<1>4. ByStage(a)
    BY <1>2 DEF ByStage
<1>5. channels' \subseteq Channels /\ a.stage \in Stages
    BY <1>2, <1>3 DEF IndInv, Shape, Stages
<1>6. \A v \in Workers \ {w} : worker[v].made \intersect a.made = {}
    BY <1>2
<1>. QED
    BY <1>1, <1>2, <1>3, <1>4, <1>5, <1>6, WorkerKept

LEMMA RolledBackKeeps ==
    ASSUME IndInv, NEW w \in Workers, RolledBack(w)
    PROVE  IndInv'
<1>1. worker' = [worker EXCEPT ![w] = Resting] /\ UNCHANGED <<finding, delivered, emails, channels>>
    BY DEF RolledBack
<1>2. ByStage(Resting)
    BY RestingIsSound DEF ByStage
<1>. QED
    BY <1>1, <1>2, RestingIsSound, WorkerKept DEF IndInv, Shape, Stages

\* The batch is marked and loaded, checks are skipped: nothing is made.
LEMMA ReadsKeep ==
    ASSUME IndInv, NEW w \in Workers, MarkProcessing(w) \/ LoadContext(w) \/ SkipCheck(w)
    PROVE  IndInv'
<1>1. /\ DOMAIN worker[w] = {"stage", "batch", "hand", "prev", "next", "made", "sent", "to"}
      /\ worker[w].made \subseteq Findings /\ worker[w].sent \subseteq Deliveries
      /\ worker[w].to \subseteq Channels /\ w \in DOMAIN worker
      /\ \A v \in Workers \ {w} : worker[v].made \intersect worker[w].made = {}
    BY DEF IndInv, Shape, MadeOnce
<1>2. UNCHANGED <<finding, delivered, emails, channels>>
    BY DEF MarkProcessing, LoadContext, SkipCheck, dbVars
<1>3. ASSUME NEW a, worker' = [worker EXCEPT ![w] = a],
             DOMAIN a = DOMAIN worker[w], a.stage \in Stages, a.made = worker[w].made,
             a.sent = worker[w].sent, a.to = worker[w].to, ByStage(a)
      PROVE  IndInv'
    <2>1. channels' \subseteq Channels
        BY <1>2 DEF IndInv, Shape
    <2>2. \A v \in Workers \ {w} : worker[v].made \intersect a.made = {}
        BY <1>1, <1>3
    <2>. QED
        BY <1>1, <1>2, <1>3, <2>1, <2>2, WorkerKept
<1>4. ByStage(worker[w])
    BY DEF IndInv
<1>5. CASE MarkProcessing(w)
    <2>0. PICK s : /\ worker' = [worker EXCEPT
                        ![w].stage = "load", ![w].hand = s, ![w].batch = @ \ {s}]
                   /\ worker[w].stage = "mark"
        BY <1>5 DEF MarkProcessing
    <2>. DEFINE a == [worker[w] EXCEPT !.stage = "load", !.hand = s, !.batch = @ \ {s}]
    <2>1. worker' = [worker EXCEPT ![w] = a] /\ worker[w].stage = "mark"
        BY <1>1, <2>0
    <2>2. /\ DOMAIN a = DOMAIN worker[w] /\ a.stage = "load" /\ a.made = worker[w].made
          /\ a.sent = worker[w].sent /\ a.to = worker[w].to
        BY <1>1
    <2>. HIDE DEF a
    <2>3. ByStage(a)
        BY <1>4, <2>1, <2>2 DEF ByStage
    <2>. QED
        BY <1>3, <2>1, <2>2, <2>3 DEF Stages
<1>6. CASE LoadContext(w)
    <2>1. PICK p : worker' = [worker EXCEPT ![w].stage = "check", ![w].prev = p, ![w].next = 1]
                   /\ worker[w].stage = "load"
        BY <1>6 DEF LoadContext
    <2>. DEFINE a == [worker[w] EXCEPT !.stage = "check", !.prev = p, !.next = 1]
    <2>2. worker' = [worker EXCEPT ![w] = a]
        BY <1>1, <2>1
    <2>3. /\ DOMAIN a = DOMAIN worker[w] /\ a.stage = "check" /\ a.made = worker[w].made
          /\ a.sent = worker[w].sent /\ a.to = worker[w].to
        BY <1>1
    <2>. HIDE DEF a
    <2>4. ByStage(a)
        BY <1>4, <2>1, <2>3 DEF ByStage
    <2>. QED
        BY <1>3, <2>2, <2>3, <2>4 DEF Stages
<1>7. CASE SkipCheck(w)
    <2>. DEFINE a == [worker[w] EXCEPT !.next = @ + 1]
    <2>1. worker' = [worker EXCEPT ![w] = a] /\ worker[w].stage = "check"
        BY <1>1, <1>7 DEF SkipCheck
    <2>2. /\ DOMAIN a = DOMAIN worker[w] /\ a.stage = "check" /\ a.made = worker[w].made
          /\ a.sent = worker[w].sent /\ a.to = worker[w].to
        BY <1>1, <2>1
    <2>. HIDE DEF a
    <2>3. ByStage(a)
        BY <1>4, <2>1, <2>2 DEF ByStage
    <2>. QED
        BY <1>3, <2>1, <2>2, <2>3 DEF Stages
<1>. QED
    BY <1>5, <1>6, <1>7

\* A check makes findings whose ids no worker has.
LEMMA RunCheckKeeps ==
    ASSUME IndInv, NEW w \in Workers, RunCheck(w)
    PROVE  IndInv'
<1>1. PICK found \in SUBSET Unused :
          worker' = [worker EXCEPT ![w].next = @ + 1, ![w].made = @ \union found]
    BY DEF RunCheck
<1>. DEFINE a == [worker[w] EXCEPT !.next = @ + 1, !.made = @ \union found]
<1>2. /\ DOMAIN worker[w] = {"stage", "batch", "hand", "prev", "next", "made", "sent", "to"}
      /\ worker[w].made \subseteq Findings /\ worker[w].sent \subseteq Deliveries
      /\ worker[w].to \subseteq Channels /\ w \in DOMAIN worker
      /\ ByStage(worker[w]) /\ worker[w].stage = "check"
    BY DEF IndInv, Shape, RunCheck
<1>3. worker' = [worker EXCEPT ![w] = a]
    BY <1>1, <1>2
<1>4. /\ DOMAIN a = {"stage", "batch", "hand", "prev", "next", "made", "sent", "to"}
      /\ a.stage = "check" /\ a.made = worker[w].made \union found
      /\ a.sent = worker[w].sent /\ a.to = worker[w].to
    BY <1>2
<1>. HIDE DEF a
<1>5. \A f \in found : f \in Findings /\ finding[f] = "absent" /\ \A v \in Workers : f \notin worker[v].made
    BY DEF Unused
<1>6. ByStage(a)
    BY <1>2, <1>4, <1>5 DEF ByStage
<1>7. \A v \in Workers \ {w} : worker[v].made \intersect a.made = {}
    BY <1>4, <1>5 DEF IndInv, MadeOnce
<1>8. UNCHANGED <<finding, delivered, emails, channels>>
    BY DEF RunCheck
<1>9. a.made \subseteq Findings /\ a.stage \in Stages
    BY <1>2, <1>4, <1>5 DEF Stages
<1>. QED
    BY <1>2, <1>3, <1>4, <1>6, <1>7, <1>8, <1>9, WorkerKept DEF IndInv, Shape

\* The channels are listed when no e-mail has left.
LEMMA ListChannelsKeeps ==
    ASSUME IndInv, NEW w \in Workers, ListChannels(w)
    PROVE  IndInv'
<1>. DEFINE stage == IF channels = {} THEN "finish" ELSE "send"
            a == [worker[w] EXCEPT !.stage = stage, !.to = channels]
<1>1. /\ DOMAIN worker[w] = {"stage", "batch", "hand", "prev", "next", "made", "sent", "to"}
      /\ worker[w].made \subseteq Findings /\ worker[w].sent \subseteq Deliveries
      /\ w \in DOMAIN worker /\ channels \subseteq Channels
      /\ ByStage(worker[w]) /\ worker[w].stage = "alert"
      /\ \A v \in Workers \ {w} : worker[v].made \intersect worker[w].made = {}
    BY DEF IndInv, Shape, MadeOnce, ListChannels
<1>2. worker' = [worker EXCEPT ![w] = a] /\ UNCHANGED <<finding, delivered, emails, channels>>
    BY <1>1 DEF ListChannels, dbVars
<1>3. /\ DOMAIN a = {"stage", "batch", "hand", "prev", "next", "made", "sent", "to"}
      /\ a.stage \in {"finish", "send"} /\ a.made = worker[w].made
      /\ a.sent = worker[w].sent /\ a.to = channels
    BY <1>1
<1>. HIDE DEF a
<1>4. a.sent = {} /\ \A f \in a.made : finding[f] # "absent" /\ Unmailed(f)
    BY <1>1, <1>3 DEF ByStage
<1>5. ByStage(a)
    BY <1>3, <1>4 DEF ByStage, SendsItsOwn, Unmailed
<1>6. channels' \subseteq Channels /\ a.stage \in Stages
    BY <1>1, <1>2, <1>3 DEF Stages
<1>7. \A v \in Workers \ {w} : worker[v].made \intersect a.made = {}
    BY <1>1, <1>3
<1>. QED
    BY <1>1, <1>2, <1>3, <1>5, <1>6, <1>7, WorkerKept

-----------------------------------------------------------------------------
(***************************************************************************)
(* The commits, and the e-mails between them.                              *)
(***************************************************************************)

LEMMA CommitFindingsKeeps ==
    ASSUME IndInv, NEW w \in Workers, CommitFindings(w)
    PROVE  IndInv'
<1>. DEFINE stage == IF worker[w].made = {} THEN "finish" ELSE "alert"
            a == [worker[w] EXCEPT !.stage = stage]
<1>1. /\ DOMAIN worker[w] = {"stage", "batch", "hand", "prev", "next", "made", "sent", "to"}
      /\ w \in DOMAIN worker /\ ByStage(worker[w]) /\ worker[w].stage = "check"
    BY DEF IndInv, Shape, CommitFindings
<1>2. /\ worker' = [worker EXCEPT ![w] = a] /\ UNCHANGED <<delivered, emails, channels>>
      /\ finding' = [f \in Findings |-> IF f \in worker[w].made THEN "open" ELSE finding[f]]
    BY <1>1 DEF CommitFindings
<1>3. /\ DOMAIN a = DOMAIN worker[w] /\ a.stage \in {"finish", "alert"}
      /\ a.made = worker[w].made /\ a.sent = worker[w].sent /\ a.to = worker[w].to
    BY <1>1
<1>. HIDE DEF a
<1>4. \A v \in Workers : worker'[v] = IF v = w THEN a ELSE worker[v]
    BY <1>2 DEF IndInv, Shape
<1>5. Shape'
    BY <1>2, <1>3, <1>4 DEF IndInv, Shape, Stages
<1>6. \A f \in worker[w].made : Unmailed(f) /\ finding[f] = "absent" /\ finding'[f] = "open"
    BY <1>1, <1>2 DEF IndInv, Shape, AbsentIsUnmailed, ByStage
<1>7. \A f \in Findings : Unmailed(f)' <=> Unmailed(f)
    BY <1>2 DEF Unmailed
<1>8. ASSUME NEW v \in Workers PROVE ByStage(worker[v])'
    <2>1. CASE v = w
        <3>1. PICK b : b = a
            OBVIOUS
        <3>2. worker'[v] = b /\ b.stage \in {"finish", "alert"} /\ b.made = worker[w].made
              /\ b.sent = {}
            BY <1>1, <1>3, <1>4, <2>1, <3>1 DEF ByStage
        <3>3. \A f \in b.made : finding'[f] = "open" /\ Unmailed(f)'
            BY <1>2, <1>6, <3>2 DEF Unmailed
        <3>. QED
            BY <3>2, <3>3 DEF ByStage, Unmailed
    <2>2. CASE v # w
        <3>1. PICK b : b = worker[v] /\ b = worker'[v] /\ ByStage(b)
            BY <1>4, <2>2 DEF IndInv
        <3>2. \A f \in b.made : f \in Findings /\ finding'[f] = finding[f]
            BY <1>2, <2>2, <3>1 DEF IndInv, Shape, MadeOnce
        <3>. QED
            BY <1>2, <3>1, <3>2 DEF ByStage, SendsItsOwn, Unmailed
    <2>. QED
        BY <2>1, <2>2
<1>9. AbsentIsUnmailed'
    BY <1>2, <1>7 DEF IndInv, AbsentIsUnmailed
<1>10. MadeOnce'
    BY <1>3, <1>4 DEF IndInv, MadeOnce
<1>11. EmailedAtMostOnce' /\ DeliveryTruthful'
    BY <1>2 DEF IndInv, Shape, EmailedAtMostOnce, DeliveryTruthful, Deliveries
<1>. QED
    BY <1>5, <1>8, <1>9, <1>10, <1>11 DEF IndInv

LEMMA SendAlertKeeps ==
    ASSUME IndInv, NEW w \in Workers, NEW p \in Pairs, NEW status \in {"sent", "failed"},
           SendAlert(w, p, status)
    PROVE  IndInv'
<1>1. PICK g \in Findings, c \in Channels : p = <<g, c>>
    BY DEF Pairs
<1>. DEFINE d == <<g, c, status>>
            a == [worker[w] EXCEPT !.sent = @ \union {d}]
<1>2. /\ DOMAIN worker[w] = {"stage", "batch", "hand", "prev", "next", "made", "sent", "to"}
      /\ w \in DOMAIN worker /\ ByStage(worker[w]) /\ worker[w].stage = "send"
      /\ worker[w].sent \subseteq Deliveries
    BY DEF IndInv, Shape, SendAlert
<1>3. worker' = [worker EXCEPT ![w] = a] /\ UNCHANGED <<finding, delivered, channels>>
    BY <1>1, <1>2 DEF SendAlert, dbVars
<1>4. /\ DOMAIN a = DOMAIN worker[w] /\ a.stage = "send" /\ a.made = worker[w].made
      /\ a.sent = worker[w].sent \union {d} /\ a.to = worker[w].to
    BY <1>2
<1>. HIDE DEF a
<1>5. /\ g \in worker[w].made /\ SendsItsOwn(worker[w]) /\ finding[g] # "absent"
      /\ \A e \in worker[w].sent : <<e[1], e[2]>> # <<g, c>>
    BY <1>1, <1>2 DEF SendAlert, Unsent, ByStage
<1>6. <<g, c, "sent">> \notin worker[w].sent /\ <<g, c, "failed">> \notin worker[w].sent
    BY <1>5
<1>7. emails[<<g, c>>] = 0
    BY <1>5, <1>6 DEF SendsItsOwn
<1>8. /\ emails' \in [Pairs -> Nat]
      /\ emails'[<<g, c>>] = IF status = "sent" THEN 1 ELSE 0
      /\ \A q \in Pairs : q # <<g, c>> => emails'[q] = emails[q]
    BY <1>1, <1>7 DEF SendAlert, IndInv, Shape
<1>9. \A v \in Workers : worker'[v] = IF v = w THEN a ELSE worker[v]
    BY <1>3 DEF IndInv, Shape
<1>10. Shape'
    <2>1. d \in Deliveries
        BY DEF Deliveries
    <2>. QED
        BY <1>2, <1>3, <1>4, <1>8, <1>9, <2>1 DEF IndInv, Shape, Stages
<1>11. \A f \in Findings \ {g} : \A e \in Channels : emails'[<<f, e>>] = emails[<<f, e>>]
    BY <1>8 DEF Pairs
<1>12. ASSUME NEW v \in Workers PROVE ByStage(worker[v])'
    <2>1. CASE v = w
        <3>1. PICK b : b = a
            OBVIOUS
        <3>2. worker'[v] = b /\ b.stage = "send" /\ b.made = worker[w].made
              /\ b.sent = worker[w].sent \union {d}
            BY <1>4, <1>9, <2>1, <3>1
        <3>3. \A e \in b.sent : e[1] \in b.made
            BY <1>5, <3>2 DEF SendsItsOwn
        <3>4. \A f \in b.made, e \in Channels :
                 /\ emails'[<<f, e>>] = IF <<f, e, "sent">> \in b.sent THEN 1 ELSE 0
                 /\ ~(<<f, e, "sent">> \in b.sent /\ <<f, e, "failed">> \in b.sent)
            <4>1. ASSUME NEW f \in b.made, NEW e \in Channels, <<f, e>> # <<g, c>>
                  PROVE  /\ emails'[<<f, e>>] = IF <<f, e, "sent">> \in b.sent THEN 1 ELSE 0
                         /\ ~(<<f, e, "sent">> \in b.sent /\ <<f, e, "failed">> \in b.sent)
                <5>1. f \in Findings
                    BY <3>2 DEF IndInv, Shape
                <5>2. emails'[<<f, e>>] = emails[<<f, e>>]
                    BY <1>8, <4>1, <5>1 DEF Pairs
                <5>3. \A any \in {"sent", "failed"} :
                          <<f, e, any>> \in b.sent <=> <<f, e, any>> \in worker[w].sent
                    BY <3>2, <4>1
                <5>. QED
                    BY <1>5, <3>2, <5>2, <5>3 DEF SendsItsOwn
            <4>2. /\ emails'[<<g, c>>] = IF <<g, c, "sent">> \in b.sent THEN 1 ELSE 0
                  /\ ~(<<g, c, "sent">> \in b.sent /\ <<g, c, "failed">> \in b.sent)
                BY <1>6, <1>8, <3>2
            <4>3. ASSUME NEW f \in b.made, NEW e \in Channels, <<f, e>> = <<g, c>>
                  PROVE  /\ emails'[<<f, e>>] = IF <<f, e, "sent">> \in b.sent THEN 1 ELSE 0
                         /\ ~(<<f, e, "sent">> \in b.sent /\ <<f, e, "failed">> \in b.sent)
                <5>1. f = g /\ e = c
                    BY <4>3
                <5>. QED
                    BY <4>2, <5>1
            <4>. QED
                BY <4>1, <4>3
        <3>5. \A f \in b.made : finding'[f] # "absent" /\ \A e \in delivered' : e[1] # f
            BY <1>2, <1>3, <1>5, <3>2 DEF ByStage, SendsItsOwn
        <3>. QED
            BY <3>2, <3>3, <3>4, <3>5 DEF ByStage, SendsItsOwn
    <2>2. CASE v # w
        <3>1. PICK b : b = worker[v] /\ b = worker'[v] /\ ByStage(b)
            BY <1>9, <2>2 DEF IndInv
        <3>2. \A f \in b.made : f \in Findings \ {g}
            BY <1>5, <2>2, <3>1 DEF IndInv, Shape, MadeOnce
        <3>. QED
            BY <1>3, <1>11, <3>1, <3>2 DEF ByStage, SendsItsOwn, Unmailed
    <2>. QED
        BY <2>1, <2>2
<1>13. AbsentIsUnmailed'
    BY <1>3, <1>5, <1>11 DEF IndInv, AbsentIsUnmailed, Unmailed
<1>14. MadeOnce'
    BY <1>4, <1>9 DEF IndInv, MadeOnce
<1>15. EmailedAtMostOnce'
    BY <1>8 DEF IndInv, EmailedAtMostOnce
<1>16. DeliveryTruthful'
    <2>1. \A e \in delivered : e[1] # g /\ e \in Deliveries
        BY <1>5 DEF SendsItsOwn, IndInv, Shape
    <2>2. \A e \in delivered : emails'[<<e[1], e[2]>>] = emails[<<e[1], e[2]>>]
        BY <1>11, <2>1 DEF Deliveries
    <2>. QED
        BY <1>3, <2>2 DEF IndInv, DeliveryTruthful
<1>. QED
    BY <1>10, <1>12, <1>13, <1>14, <1>15, <1>16 DEF IndInv

LEMMA CommitAlertsKeeps ==
    ASSUME IndInv, NEW w \in Workers, CommitAlerts(w)
    PROVE  IndInv'
<1>. DEFINE a == [worker[w] EXCEPT !.stage = "finish"]
<1>1. /\ DOMAIN worker[w] = {"stage", "batch", "hand", "prev", "next", "made", "sent", "to"}
      /\ w \in DOMAIN worker /\ ByStage(worker[w]) /\ worker[w].stage = "send"
      /\ worker[w].sent \subseteq Deliveries /\ SendsItsOwn(worker[w])
    BY DEF IndInv, Shape, CommitAlerts, ByStage
<1>2. /\ worker' = [worker EXCEPT ![w] = a] /\ UNCHANGED <<finding, emails, channels>>
      /\ delivered' = delivered \union worker[w].sent
    BY <1>1 DEF CommitAlerts
<1>3. /\ DOMAIN a = DOMAIN worker[w] /\ a.stage = "finish" /\ a.made = worker[w].made
      /\ a.sent = worker[w].sent /\ a.to = worker[w].to
    BY <1>1
<1>. HIDE DEF a
<1>4. \A v \in Workers : worker'[v] = IF v = w THEN a ELSE worker[v]
    BY <1>2 DEF IndInv, Shape
<1>5. Shape'
    BY <1>1, <1>2, <1>3, <1>4 DEF IndInv, Shape, Stages
<1>6. \A d \in delivered' : d \in delivered \/ d[1] \in worker[w].made
    BY <1>1, <1>2 DEF SendsItsOwn
<1>7. ASSUME NEW v \in Workers PROVE ByStage(worker[v])'
    <2>1. CASE v = w
        <3>1. PICK b : b = a
            OBVIOUS
        <3>2. worker'[v] = b /\ b.stage = "finish" /\ b.made = worker[w].made
            BY <1>3, <1>4, <2>1, <3>1
        <3>. QED
            BY <1>1, <1>2, <3>2 DEF ByStage
    <2>2. CASE v # w
        <3>1. PICK b : b = worker[v] /\ b = worker'[v] /\ ByStage(b)
            BY <1>4, <2>2 DEF IndInv
        <3>2. \A f \in b.made : f \notin worker[w].made
            BY <2>2, <3>1 DEF IndInv, MadeOnce
        <3>. QED
            BY <1>2, <1>6, <3>1, <3>2 DEF ByStage, SendsItsOwn, Unmailed
    <2>. QED
        BY <2>1, <2>2
<1>8. AbsentIsUnmailed'
    <2>1. \A f \in worker[w].made : finding[f] # "absent"
        BY <1>1 DEF ByStage
    <2>. QED
        BY <1>2, <1>6, <2>1 DEF IndInv, AbsentIsUnmailed, Unmailed
<1>9. MadeOnce'
    BY <1>3, <1>4 DEF IndInv, MadeOnce
<1>10. EmailedAtMostOnce'
    BY <1>2 DEF IndInv, EmailedAtMostOnce
<1>11. DeliveryTruthful'
    <2>1. ASSUME NEW d \in worker[w].sent
          PROVE  /\ finding[d[1]] # "absent"
                 /\ d[3] = "sent" => emails[<<d[1], d[2]>>] = 1
                 /\ <<d[1], d[2], IF d[3] = "sent" THEN "failed" ELSE "sent">> \notin delivered'
        <3>1. PICK f \in Findings, c \in Channels, status \in {"sent", "failed"} :
                  d = <<f, c, status>>
            BY <1>1 DEF Deliveries
        <3>2. f \in worker[w].made /\ finding[f] # "absent" /\ \A e \in delivered : e[1] # f
            BY <1>1, <2>1, <3>1 DEF SendsItsOwn, ByStage
        <3>3. /\ emails[<<f, c>>] = IF <<f, c, "sent">> \in worker[w].sent THEN 1 ELSE 0
              /\ ~(<<f, c, "sent">> \in worker[w].sent /\ <<f, c, "failed">> \in worker[w].sent)
            BY <1>1, <3>2 DEF SendsItsOwn
        <3>4. \A any \in {"sent", "failed"} : any # status => <<f, c, any>> \notin delivered'
            BY <1>2, <2>1, <3>1, <3>2, <3>3
        <3>. QED
            BY <2>1, <3>1, <3>2, <3>3, <3>4
    <2>2. ASSUME NEW d \in delivered
          PROVE  <<d[1], d[2], IF d[3] = "sent" THEN "failed" ELSE "sent">> \notin delivered'
        <3>1. d[1] \notin worker[w].made
            BY <1>1, <2>2 DEF SendsItsOwn
        <3>2. <<d[1], d[2], IF d[3] = "sent" THEN "failed" ELSE "sent">> \notin worker[w].sent
            BY <1>1, <3>1 DEF SendsItsOwn
        <3>. QED
            BY <1>2, <3>2 DEF IndInv, DeliveryTruthful
    <2>. QED
        BY <1>2, <2>1, <2>2 DEF IndInv, DeliveryTruthful
<1>. QED
    BY <1>5, <1>7, <1>8, <1>9, <1>10, <1>11 DEF IndInv

LEMMA UserKeeps ==
    ASSUME IndInv, UserStep
    PROVE  IndInv'
<1>1. /\ UNCHANGED <<delivered, emails, worker>> /\ channels' \subseteq Channels
      /\ finding' \in [Findings -> {"absent", "open", "resolved"}]
      /\ \A f \in Findings : finding'[f] = "absent" <=> finding[f] = "absent"
    BY DEF UserStep, BeginIngest, IngestSnapshot, CreateAlertChannel, ResolveFinding, IndInv, Shape
<1>2. Shape' /\ AbsentIsUnmailed' /\ MadeOnce' /\ EmailedAtMostOnce'
    BY <1>1 DEF IndInv, Shape, AbsentIsUnmailed, Unmailed, MadeOnce, EmailedAtMostOnce
<1>3. ASSUME NEW v \in Workers PROVE ByStage(worker[v])'
    <2>1. PICK b : b = worker[v] /\ b = worker'[v] /\ ByStage(b) /\ b.made \subseteq Findings
        BY <1>1 DEF IndInv, Shape
    <2>. QED
        BY <1>1, <2>1 DEF ByStage, SendsItsOwn, Unmailed
<1>4. DeliveryTruthful'
    BY <1>1 DEF IndInv, Shape, DeliveryTruthful, Deliveries
<1>. QED
    BY <1>2, <1>3, <1>4 DEF IndInv

LEMMA StepKeeps == IndInv /\ [Next]_vars => IndInv'
<1>. SUFFICES ASSUME IndInv, [Next]_vars PROVE IndInv'
    OBVIOUS
<1>1. ASSUME NEW w \in Workers, WorkerStep(w) PROVE IndInv'
    BY <1>1, CycleKeeps, ReadsKeep, RunCheckKeeps, RolledBackKeeps, CommitFindingsKeeps,
       ListChannelsKeeps, SendAlertKeeps, CommitAlertsKeeps DEF WorkerStep, CheckRaises
<1>2. ASSUME NEW w \in Workers, Crash(w) PROVE IndInv'
    BY <1>2, RolledBackKeeps DEF Crash
<1>3. CASE UNCHANGED vars
    BY <1>3 DEF vars, dbVars, IndInv, Shape, AbsentIsUnmailed, Unmailed, MadeOnce, ByStage,
                SendsItsOwn, EmailedAtMostOnce, DeliveryTruthful
<1>. QED
    BY <1>1, <1>2, <1>3, UserKeeps DEF Next

THEOREM PipelineInvariance == Spec => []IndInv
    BY InitHolds, StepKeeps, PTL DEF Spec

\* However many workers run, and whatever crashes between an e-mail and the
\* commit of its delivery, nobody gets two e-mails for a finding.
THEOREM EmailsAreNotRepeated == Spec => []EmailedAtMostOnce
    BY PipelineInvariance, PTL DEF IndInv

\* A delivery that says "sent" is of an e-mail that left, with any number of workers.
THEOREM DeliveriesAreTruthful == Spec => []DeliveryTruthful
    BY PipelineInvariance, PTL DEF IndInv

-----------------------------------------------------------------------------
(***************************************************************************)
(* One worker, as in docker-compose.yml: the order of snapshots.           *)
(***************************************************************************)

OneWorker == \A v, w \in Workers : v = w

Started(s) == state[s] \in {"processing", "done"}

\* A snapshot arrives once, and is not absent from then on.
ArrivalsAreOnce ==
    /\ state \in [Snapshots -> {"absent", "arriving", "queued", "processing", "done"}]
    /\ arrived \in Seq(Snapshots)
    /\ \A i, j \in DOMAIN arrived : arrived[i] = arrived[j] => i = j
    /\ \A s \in Snapshots : state[s] # "absent" <=> \E i \in DOMAIN arrived : arrived[i] = s

\* A snapshot is behind those that were stored when it began to arrive.
BeforeIsStored ==
    /\ before \in [Snapshots -> SUBSET Snapshots]
    /\ \A s \in Snapshots : \A t \in before[s] :
         state[t] \notin {"absent", "arriving"} /\ IsBefore(t, s)

\* What was started had nothing before it that was not.
StartedInOrder == \A s \in Snapshots : Started(s) => \A t \in before[s] : Started(t)

\* The batch is queued and has before it only what was started; the snapshot at
\* hand is the last started.
FollowsQueue(a) ==
    /\ a.batch \subseteq Snapshots
    /\ \A s \in a.batch : state[s] = "queued"
    /\ \A s \in a.batch : \A t \in before[s] \ a.batch : Started(t)
    /\ a.stage = "idle" => a.batch = {}
    /\ a.stage \in {"idle", "mark"} => a.hand = None
    /\ a.stage \in {"mark", "load"} => a.prev = None
    /\ a.stage \notin {"idle", "mark"} =>
        /\ a.hand \in Snapshots
        /\ state[a.hand] = "processing"
        /\ \A s \in Snapshots \ {a.hand} : Started(s) => a.hand \notin before[s]
        /\ a.prev # None =>
             a.prev \in Snapshots /\ state[a.prev] = "done" /\ a.hand \notin before[a.prev]

OrderInv ==
    /\ ArrivalsAreOnce
    /\ BeforeIsStored
    /\ StartedInOrder
    /\ \A w \in Workers : FollowsQueue(worker[w])

-----------------------------------------------------------------------------
(***************************************************************************)
(* One worker: the findings of a snapshot and their alerts.                *)
(***************************************************************************)

SameCheck(f, g) ==
    /\ origin[f].check = origin[g].check
    /\ FirewallOf[origin[f].snapshot] = FirewallOf[origin[g].snapshot]

Alerted(f) == \A c \in owed[f] : \E status \in {"sent", "failed"} : <<f, c, status>> \in delivered

\* A finding is of a snapshot that was started, and no other run found it too.
FindingsHaveStarted ==
    \A f \in Findings : finding[f] # "absent" =>
        origin[f].snapshot \in Snapshots /\ Started(origin[f].snapshot)

\* The run of the snapshot at hand is the only one that made findings for it,
\* of checks that had none open, and owes their alerts until it is done.
OwesAlerts(a) ==
    /\ \A f \in a.made : origin[f].snapshot = a.hand
    /\ a.stage \in {"load", "check"} =>
        \A f \in Findings : finding[f] # "absent" => origin[f].snapshot # a.hand
    /\ a.stage = "check" =>
        \A f \in a.made, g \in Findings : finding[g] = "open" => ~SameCheck(f, g)
    /\ a.stage \in {"alert", "send", "finish"} =>
        \A f \in Findings : finding[f] # "absent" /\ origin[f].snapshot = a.hand => f \in a.made
    /\ a.stage = "alert" => \A f \in a.made : owed[f] \subseteq channels
    /\ a.stage = "send" => \A f \in a.made : owed[f] \subseteq a.to
    /\ a.stage = "finish" => \A f \in a.made : Alerted(f)

RunInv ==
    /\ FindingsHaveStarted
    /\ \A w \in Workers : OwesAlerts(worker[w])
    /\ NoRepeatedFinding
    /\ DoneIsAlerted

-----------------------------------------------------------------------------
(***************************************************************************)
(* The order of arrival.                                                   *)
(***************************************************************************)

LEMMA BeforeIsAnOrder ==
    ASSUME ArrivalsAreOnce
    PROVE  /\ \A a, b, c : IsBefore(a, b) /\ IsBefore(b, c) => IsBefore(a, c)
           /\ \A a, b : IsBefore(a, b) => ~IsBefore(b, a)
           /\ \A a, b \in Snapshots : a # b /\ state[a] # "absent" /\ state[b] # "absent"
                => IsBefore(a, b) \/ IsBefore(b, a)
<1>1. DOMAIN arrived = 1..Len(arrived) /\ Len(arrived) \in Nat
    BY DEF ArrivalsAreOnce
<1>2. ASSUME NEW a, NEW b, NEW c, IsBefore(a, b), IsBefore(b, c) PROVE IsBefore(a, c)
    BY <1>1, <1>2 DEF IsBefore, ArrivalsAreOnce
<1>3. ASSUME NEW a, NEW b, IsBefore(a, b), IsBefore(b, a) PROVE FALSE
    BY <1>1, <1>3 DEF IsBefore, ArrivalsAreOnce
<1>4. ASSUME NEW a \in Snapshots, NEW b \in Snapshots, a # b,
             state[a] # "absent", state[b] # "absent"
      PROVE  IsBefore(a, b) \/ IsBefore(b, a)
    <2>1. PICK i, j \in DOMAIN arrived : arrived[i] = a /\ arrived[j] = b
        BY <1>4 DEF ArrivalsAreOnce
    <2>2. i < j \/ j < i
        BY <1>1, <1>4, <2>1
    <2>. QED
        BY <2>1, <2>2 DEF IsBefore
<1>. QED
    BY <1>2, <1>3, <1>4

\* A new snapshot comes after all others, and does not change their order.
LEMMA ArrivesLast ==
    ASSUME ArrivalsAreOnce, NEW s \in Snapshots, BeginIngest(s)
    PROVE  /\ ArrivalsAreOnce'
           /\ \A a, b : IsBefore(a, b) => IsBefore(a, b)'
           /\ \A a \in Snapshots : state[a] # "absent" => IsBefore(a, s)'
<1>1. DOMAIN arrived = 1..Len(arrived) /\ Len(arrived) \in Nat
    BY DEF ArrivalsAreOnce
<1>2. /\ arrived' \in Seq(Snapshots) /\ DOMAIN arrived' = 1..(Len(arrived) + 1)
      /\ arrived'[Len(arrived) + 1] = s
      /\ \A i \in 1..Len(arrived) : arrived'[i] = arrived[i]
    BY <1>1 DEF ArrivalsAreOnce, BeginIngest
<1>3. /\ \A i \in DOMAIN arrived : i \in DOMAIN arrived' /\ i < Len(arrived) + 1
      /\ Len(arrived) + 1 \in DOMAIN arrived'
      /\ \A i \in DOMAIN arrived' : i \in DOMAIN arrived \/ i = Len(arrived) + 1
      /\ \A i \in DOMAIN arrived : arrived[i] # s
    BY <1>1, <1>2 DEF ArrivalsAreOnce, BeginIngest
<1>4. \A i, j \in DOMAIN arrived' : arrived'[i] = arrived'[j] => i = j
    BY <1>1, <1>2, <1>3 DEF ArrivalsAreOnce
<1>5. \A t \in Snapshots : state'[t] # "absent" <=> \E i \in DOMAIN arrived' : arrived'[i] = t
    BY <1>1, <1>2, <1>3 DEF ArrivalsAreOnce, BeginIngest
<1>6. state' \in [Snapshots -> {"absent", "arriving", "queued", "processing", "done"}]
    BY DEF ArrivalsAreOnce, BeginIngest
<1>7. \A a, b : IsBefore(a, b) => IsBefore(a, b)'
    BY <1>1, <1>2, <1>3 DEF IsBefore
<1>8. \A a \in Snapshots : state[a] # "absent" => IsBefore(a, s)'
    BY <1>1, <1>2, <1>3 DEF IsBefore, ArrivalsAreOnce
<1>. QED
    BY <1>2, <1>4, <1>5, <1>6, <1>7, <1>8 DEF ArrivalsAreOnce

LEMMA ArrivedAreFinite ==
    ASSUME ArrivalsAreOnce, NEW S, \A s \in S : s \in Snapshots /\ state[s] # "absent"
    PROVE  IsFiniteSet(S)
<1>. DEFINE all == {arrived[i] : i \in 1..Len(arrived)}
<1>1. arrived \in Surjection(1..Len(arrived), all)
    BY DEF ArrivalsAreOnce, Surjection
<1>2. IsFiniteSet(1..Len(arrived))
    BY FS_Interval DEF ArrivalsAreOnce
<1>3. IsFiniteSet(all)
    <2>. HIDE DEF all
    <2>. QED
        BY <1>1, <1>2, FS_Surjection
<1>4. S \in SUBSET all
    BY DEF ArrivalsAreOnce
<1>. QED
    BY <1>3, <1>4, FS_Subset

\* What a limited query leaves out is younger than what it returns.
LEMMA OldestAreInFront ==
    ASSUME ArrivalsAreOnce, NEW rows, \A s \in rows : s \in Snapshots /\ state[s] # "absent",
           NEW s \in Oldest(rows), NEW q \in rows \ Oldest(rows)
    PROVE  IsBefore(s, q)
<1>. DEFINE earlier(t) == {r \in rows : IsBefore(r, t)}
<1>1. IsFiniteSet(earlier(s)) /\ IsFiniteSet(earlier(q))
    BY ArrivedAreFinite
<1>2. Cardinality(earlier(s)) \in Nat /\ Cardinality(earlier(q)) \in Nat
    BY <1>1, FS_CardinalityType
<1>3. Cardinality(earlier(s)) < Cardinality(earlier(q))
    <2>1. Cardinality(earlier(s)) < BatchSize /\ ~(Cardinality(earlier(q)) < BatchSize)
        BY DEF Oldest
    <2>. HIDE DEF earlier
    <2>. QED
        BY <1>2, <2>1, BatchAssumption
<1>4. CASE IsBefore(q, s)
    <2>1. earlier(q) \in SUBSET earlier(s)
        BY <1>4, BeforeIsAnOrder
    <2>2. Cardinality(earlier(q)) <= Cardinality(earlier(s))
        <3>. HIDE DEF earlier
        <3>. QED
            BY <1>1, <2>1, FS_Subset
    <2>. HIDE DEF earlier
    <2>. QED
        BY <1>2, <1>3, <2>2
<1>5. s # q /\ s \in rows /\ q \in rows
    BY DEF Oldest
<1>. QED
    BY <1>4, <1>5, BeforeIsAnOrder

-----------------------------------------------------------------------------

LEMMA OrderInit == Init => OrderInv
<1>. SUFFICES ASSUME Init PROVE OrderInv
    OBVIOUS
<1>1. \A w \in Workers : worker[w] = Resting
    BY DEF Init
<1>2. /\ Resting.batch = {} /\ Resting.stage = "idle"
      /\ Resting.prev = None /\ Resting.hand = None
    BY DEF Resting
<1>3. ASSUME NEW w \in Workers PROVE FollowsQueue(worker[w])
    <2>1. PICK a : a = worker[w]
        OBVIOUS
    <2>. QED
        BY <1>1, <1>2, <2>1 DEF FollowsQueue
<1>4. ArrivalsAreOnce /\ BeforeIsStored /\ StartedInOrder
    BY DEF Init, ArrivalsAreOnce, BeforeIsStored, StartedInOrder, Started
<1>. QED
    BY <1>3, <1>4 DEF OrderInv

\* The worker goes on without starting or finishing a snapshot.
LEMMA OrderKept ==
    ASSUME OneWorker, IndInv, OrderInv, UNCHANGED <<state, arrived, before>>, NEW w \in Workers,
           NEW a, worker' = [worker EXCEPT ![w] = a], FollowsQueue(a)
    PROVE  OrderInv'
<1>1. \A v \in Workers : worker'[v] = a
    BY DEF OneWorker, IndInv, Shape
<1>2. ASSUME NEW v \in Workers PROVE FollowsQueue(worker[v])'
    <2>1. PICK b : b = worker'[v] /\ FollowsQueue(b)
        BY <1>1
    <2>. QED
        BY <2>1 DEF FollowsQueue, IsBefore, Started
<1>3. ArrivalsAreOnce' /\ BeforeIsStored' /\ StartedInOrder'
    BY DEF OrderInv, ArrivalsAreOnce, BeforeIsStored, StartedInOrder, Started, IsBefore
<1>. QED
    BY <1>2, <1>3 DEF OrderInv

LEMMA NoOtherLocks == ASSUME OneWorker, NEW w \in Workers PROVE LockedByOthers(w) = {}
    BY DEF OneWorker, LockedByOthers

LEMMA OrderListQueued ==
    ASSUME OneWorker, IndInv, OrderInv, NEW w \in Workers, ListQueued(w)
    PROVE  OrderInv'
<1>. DEFINE a == [Resting EXCEPT !.stage = "mark", !.batch = QueuedFor(w)]
<1>1. worker' = [worker EXCEPT ![w] = a] /\ UNCHANGED <<state, arrived, before>>
    BY DEF ListQueued, dbVars
<1>2. a.batch = QueuedFor(w) /\ a.stage = "mark" /\ a.prev = None /\ a.hand = None
    BY DEF Resting
<1>. HIDE DEF a
<1>. DEFINE rows == {s \in Snapshots : state[s] = "queued"}
<1>3. a.batch = Oldest(rows)
    BY <1>2, NoOtherLocks DEF QueuedFor
<1>4. a.batch \subseteq rows
    BY <1>3 DEF Oldest
<1>5. \A s \in a.batch, q \in rows \ a.batch : IsBefore(s, q)
    <2>1. \A s \in rows : s \in Snapshots /\ state[s] # "absent"
        OBVIOUS
    <2>. HIDE DEF rows
    <2>. QED
        BY <1>3, <2>1, OldestAreInFront DEF OrderInv
<1>6. ASSUME NEW s \in a.batch, NEW t \in before[s] \ a.batch PROVE Started(t)
    <2>1. t \in Snapshots /\ state[t] \notin {"absent", "arriving"} /\ IsBefore(t, s)
        BY <1>4, <1>6 DEF OrderInv, BeforeIsStored
    <2>2. ~IsBefore(s, t)
        BY <2>1, BeforeIsAnOrder DEF OrderInv
    <2>3. state[t] # "queued"
        BY <1>5, <1>6, <2>1, <2>2
    <2>. QED
        BY <2>1, <2>3 DEF OrderInv, ArrivalsAreOnce, Started
<1>7. FollowsQueue(a)
    BY <1>2, <1>4, <1>6 DEF FollowsQueue
<1>. QED
    BY <1>1, <1>7, OrderKept

\* The oldest snapshot of the batch is started: what it is behind was.
LEMMA OrderMarkProcessing ==
    ASSUME OneWorker, IndInv, OrderInv, NEW w \in Workers, MarkProcessing(w)
    PROVE  OrderInv'
<1>1. PICK s \in worker[w].batch :
          /\ ComesFirst(s, worker[w].batch)
          /\ state' = [state EXCEPT ![s] = "processing"]
          /\ worker' = [worker EXCEPT ![w].stage = "load", ![w].hand = s, ![w].batch = @ \ {s}]
    BY DEF MarkProcessing
<1>2. PICK b : b = worker[w]
    OBVIOUS
<1>3. /\ DOMAIN b = {"stage", "batch", "hand", "prev", "next", "made", "sent", "to"}
      /\ w \in DOMAIN worker /\ FollowsQueue(b) /\ b.stage = "mark" /\ s \in b.batch
      /\ ComesFirst(s, b.batch)
    BY <1>1, <1>2 DEF IndInv, Shape, OrderInv, MarkProcessing
<1>4. PICK a : a = [b EXCEPT !.stage = "load", !.hand = s, !.batch = @ \ {s}]
    OBVIOUS
<1>5. worker' = [worker EXCEPT ![w] = a]
    BY <1>1, <1>2, <1>3, <1>4
<1>6. a.stage = "load" /\ a.hand = s /\ a.batch = b.batch \ {s} /\ a.prev = None
    BY <1>3, <1>4 DEF FollowsQueue
<1>7. \A v \in Workers : worker'[v] = a
    BY <1>5 DEF OneWorker, IndInv, Shape
<1>8. /\ s \in Snapshots /\ state[s] = "queued" /\ arrived' = arrived /\ before' = before
      /\ \A t \in before[s] : Started(t)
    <2>1. \A t \in before[s] : ~IsBefore(s, t)
        BY <1>3, BeforeIsAnOrder DEF FollowsQueue, OrderInv, BeforeIsStored
    <2>2. \A t \in before[s] : t # s
        BY <1>3, BeforeIsAnOrder DEF FollowsQueue, OrderInv, BeforeIsStored
    <2>. QED
        BY <1>3, <2>1, <2>2 DEF FollowsQueue, ComesFirst, MarkProcessing
<1>9. \A q \in Snapshots : state'[q] = IF q = s THEN "processing" ELSE state[q]
    BY <1>1 DEF OrderInv, ArrivalsAreOnce
<1>10. \A q, r : IsBefore(q, r)' <=> IsBefore(q, r)
    BY <1>8 DEF IsBefore
<1>11. ArrivalsAreOnce' /\ BeforeIsStored'
    BY <1>1, <1>8, <1>9, <1>10 DEF OrderInv, ArrivalsAreOnce, BeforeIsStored
<1>12. \A q \in Snapshots : Started(q)' <=> q = s \/ Started(q)
    BY <1>9 DEF Started
<1>13. /\ StartedInOrder'
       /\ \A q \in Snapshots \ {s} : Started(q) => s \notin before[q]
    BY <1>8, <1>12 DEF OrderInv, StartedInOrder, BeforeIsStored, Started
<1>14. ASSUME NEW v \in Workers PROVE FollowsQueue(worker[v])'
    <2>1. PICK c : c = worker'[v] /\ c = a
        BY <1>7
    <2>. QED
        BY <1>3, <1>6, <1>8, <1>9, <1>12, <1>13, <2>1 DEF FollowsQueue, OrderInv, BeforeIsStored
<1>. QED
    BY <1>11, <1>13, <1>14 DEF OrderInv

\* What is done came before the snapshot at hand.
LEMMA OrderLoadContext ==
    ASSUME OneWorker, IndInv, OrderInv, NEW w \in Workers, LoadContext(w)
    PROVE  OrderInv'
<1>1. PICK p \in PreviousOf(AtHand(w)) :
          worker' = [worker EXCEPT ![w].stage = "check", ![w].prev = p, ![w].next = 1]
    BY DEF LoadContext
<1>2. PICK b : b = worker[w]
    OBVIOUS
<1>3. /\ DOMAIN b = {"stage", "batch", "hand", "prev", "next", "made", "sent", "to"}
      /\ w \in DOMAIN worker /\ FollowsQueue(b) /\ b.stage = "load"
    BY <1>2 DEF IndInv, Shape, OrderInv, LoadContext
<1>4. PICK a : a = [b EXCEPT !.stage = "check", !.prev = p, !.next = 1]
    OBVIOUS
<1>5. worker' = [worker EXCEPT ![w] = a]
    BY <1>1, <1>2, <1>3, <1>4
<1>6. a.stage = "check" /\ a.prev = p /\ a.batch = b.batch /\ a.hand = b.hand
    BY <1>3, <1>4
<1>7. p = None \/ (p \in Snapshots \ {b.hand} /\ state[p] = "done")
    BY <1>1, <1>2 DEF PreviousOf, AtHand
<1>8. FollowsQueue(a)
    BY <1>3, <1>6, <1>7 DEF FollowsQueue, Started
<1>. QED
    BY <1>5, <1>8, OrderKept DEF LoadContext, dbVars

\* The run of the snapshot at hand goes on.
LEMMA OrderRun ==
    ASSUME OneWorker, IndInv, OrderInv, NEW w \in Workers,
           UNCHANGED <<state, arrived, before>>, worker[w].stage \notin {"idle", "mark", "load"},
           NEW a, worker' = [worker EXCEPT ![w] = a],
           a.stage \notin {"idle", "mark", "load"}, a.batch = worker[w].batch,
           a.hand = worker[w].hand, a.prev = worker[w].prev
    PROVE  OrderInv'
<1>1. FollowsQueue(worker[w])
    BY DEF OrderInv
<1>2. FollowsQueue(a)
    BY <1>1 DEF FollowsQueue
<1>. QED
    BY <1>2, OrderKept

\* ... with the same batch, snapshot and predecessor
LEMMA RunGoesOn ==
    ASSUME IndInv, NEW w \in Workers,
           \/ SkipCheck(w) \/ RunCheck(w) \/ CommitFindings(w) \/ ListChannels(w)
           \/ \E p \in Pairs, status \in {"sent", "failed"} : SendAlert(w, p, status)
           \/ CommitAlerts(w)
    PROVE  /\ UNCHANGED <<state, arrived, before>>
           /\ worker[w].stage \notin {"idle", "mark", "load"}
           /\ \E a : /\ worker' = [worker EXCEPT ![w] = a]
                    /\ a.stage \notin {"idle", "mark", "load"}
                    /\ a.batch = worker[w].batch /\ a.hand = worker[w].hand
                    /\ a.prev = worker[w].prev
<1>1. PICK b : b = worker[w]
    OBVIOUS
<1>2. /\ DOMAIN b = {"stage", "batch", "hand", "prev", "next", "made", "sent", "to"}
      /\ w \in DOMAIN worker
    BY <1>1 DEF IndInv, Shape
<1>3. UNCHANGED <<state, arrived, before>> /\ b.stage \notin {"idle", "mark", "load"}
    BY <1>1 DEF SkipCheck, RunCheck, CommitFindings, ListChannels, SendAlert, CommitAlerts, dbVars
<1>5. CASE SkipCheck(w)
    <2>2. PICK a : a = [b EXCEPT !.next = @ + 1]
        OBVIOUS
    <2>3. worker' = [worker EXCEPT ![w] = a]
        BY <1>1, <1>2, <1>5, <2>2 DEF SkipCheck
    <2>4. /\ a.stage \notin {"idle", "mark", "load"}
          /\ a.batch = b.batch /\ a.hand = b.hand /\ a.prev = b.prev
        BY <1>2, <1>3, <2>2
    <2>. QED
        BY <1>1, <1>3, <2>3, <2>4
<1>6. CASE RunCheck(w)
    <2>1. PICK found : worker' = [worker EXCEPT ![w].next = @ + 1, ![w].made = @ \union found]
        BY <1>6 DEF RunCheck
    <2>2. PICK a : a = [b EXCEPT !.next = @ + 1, !.made = @ \union found]
        OBVIOUS
    <2>3. worker' = [worker EXCEPT ![w] = a]
        BY <1>1, <1>2, <2>1, <2>2
    <2>4. /\ a.stage \notin {"idle", "mark", "load"}
          /\ a.batch = b.batch /\ a.hand = b.hand /\ a.prev = b.prev
        BY <1>2, <1>3, <2>1, <2>2
    <2>. QED
        BY <1>1, <1>3, <2>3, <2>4
<1>7. CASE CommitFindings(w)
    <2>1. PICK stage \in {"finish", "alert"} : worker' = [worker EXCEPT ![w].stage = stage]
        BY <1>7 DEF CommitFindings
    <2>2. PICK a : a = [b EXCEPT !.stage = stage]
        OBVIOUS
    <2>3. worker' = [worker EXCEPT ![w] = a]
        BY <1>1, <1>2, <2>1, <2>2
    <2>4. /\ a.stage \notin {"idle", "mark", "load"}
          /\ a.batch = b.batch /\ a.hand = b.hand /\ a.prev = b.prev
        BY <1>2, <1>3, <2>1, <2>2
    <2>. QED
        BY <1>1, <1>3, <2>3, <2>4
<1>8. CASE ListChannels(w)
    <2>1. PICK stage \in {"finish", "send"} :
              worker' = [worker EXCEPT ![w].stage = stage, ![w].to = channels]
        BY <1>8 DEF ListChannels
    <2>2. PICK a : a = [b EXCEPT !.stage = stage, !.to = channels]
        OBVIOUS
    <2>3. worker' = [worker EXCEPT ![w] = a]
        BY <1>1, <1>2, <2>1, <2>2
    <2>4. /\ a.stage \notin {"idle", "mark", "load"}
          /\ a.batch = b.batch /\ a.hand = b.hand /\ a.prev = b.prev
        BY <1>2, <1>3, <2>1, <2>2
    <2>. QED
        BY <1>1, <1>3, <2>3, <2>4
<1>9. CASE \E p \in Pairs, status \in {"sent", "failed"} : SendAlert(w, p, status)
    <2>1. PICK d : worker' = [worker EXCEPT ![w].sent = @ \union {d}]
        BY <1>9 DEF SendAlert
    <2>2. PICK a : a = [b EXCEPT !.sent = @ \union {d}]
        OBVIOUS
    <2>3. worker' = [worker EXCEPT ![w] = a]
        BY <1>1, <1>2, <2>1, <2>2
    <2>4. /\ a.stage \notin {"idle", "mark", "load"}
          /\ a.batch = b.batch /\ a.hand = b.hand /\ a.prev = b.prev
        BY <1>2, <1>3, <2>1, <2>2
    <2>. QED
        BY <1>1, <1>3, <2>3, <2>4
<1>10. CASE CommitAlerts(w)
    <2>2. PICK a : a = [b EXCEPT !.stage = "finish"]
        OBVIOUS
    <2>3. worker' = [worker EXCEPT ![w] = a]
        BY <1>1, <1>2, <1>10, <2>2 DEF CommitAlerts
    <2>4. /\ a.stage \notin {"idle", "mark", "load"}
          /\ a.batch = b.batch /\ a.hand = b.hand /\ a.prev = b.prev
        BY <1>2, <1>3, <2>2
    <2>. QED
        BY <1>1, <1>3, <2>3, <2>4
<1>. QED
    BY <1>5, <1>6, <1>7, <1>8, <1>9, <1>10

LEMMA OrderRunSteps ==
    ASSUME OneWorker, IndInv, OrderInv, NEW w \in Workers,
           \/ SkipCheck(w) \/ RunCheck(w) \/ CommitFindings(w) \/ ListChannels(w)
           \/ \E p \in Pairs, status \in {"sent", "failed"} : SendAlert(w, p, status)
           \/ CommitAlerts(w)
    PROVE  OrderInv'
    BY RunGoesOn, OrderRun

LEMMA OrderRolledBack ==
    ASSUME OneWorker, IndInv, OrderInv, NEW w \in Workers, RolledBack(w)
    PROVE  OrderInv'
<1>1. PICK a : a = Resting
    OBVIOUS
<1>2. a.batch = {} /\ a.stage = "idle" /\ a.hand = None
    BY <1>1 DEF Resting
<1>3. FollowsQueue(a)
    BY <1>2 DEF FollowsQueue
<1>. QED
    BY <1>1, <1>3, OrderKept DEF RolledBack

\* The snapshot at hand was the last started, and so the last done.
LEMMA OrderFinish ==
    ASSUME OneWorker, IndInv, OrderInv, NEW w \in Workers, Finish(w)
    PROVE  OrderInv'
<1>1. PICK b : b = worker[w]
    OBVIOUS
<1>2. FollowsQueue(b) /\ b.stage = "finish"
    BY <1>1 DEF OrderInv, Finish
<1>3. PICK a : a = [Resting EXCEPT !.stage = IF b.batch = {} THEN "idle" ELSE "mark",
                                   !.batch = b.batch]
    OBVIOUS
<1>4. worker' = [worker EXCEPT ![w] = a] /\ arrived' = arrived /\ before' = before
      /\ state' = [state EXCEPT ![b.hand] = "done"]
    BY <1>1, <1>3 DEF Finish, AtHand
<1>5. /\ a.batch = b.batch /\ a.prev = None /\ a.hand = None /\ a.stage \in {"idle", "mark"}
      /\ a.stage = "idle" => a.batch = {}
    BY <1>3 DEF Resting
<1>6. \A v \in Workers : worker'[v] = a
    BY <1>4 DEF OneWorker, IndInv, Shape
<1>7. b.hand \in Snapshots /\ state[b.hand] = "processing"
    BY <1>2 DEF FollowsQueue
<1>8. \A q \in Snapshots : state'[q] = IF q = b.hand THEN "done" ELSE state[q]
    BY <1>4 DEF OrderInv, ArrivalsAreOnce
<1>9. \A q, r : IsBefore(q, r)' <=> IsBefore(q, r)
    BY <1>4 DEF IsBefore
<1>10. ArrivalsAreOnce' /\ BeforeIsStored'
    BY <1>4, <1>7, <1>8, <1>9 DEF OrderInv, ArrivalsAreOnce, BeforeIsStored
<1>11. StartedInOrder' /\ \A q \in Snapshots : Started(q)' <=> Started(q)
    BY <1>4, <1>7, <1>8 DEF OrderInv, StartedInOrder, BeforeIsStored, Started
<1>12. ASSUME NEW v \in Workers PROVE FollowsQueue(worker[v])'
    <2>1. PICK c : c = worker'[v] /\ c = a
        BY <1>6
    <2>. QED
        BY <1>2, <1>4, <1>5, <1>7, <1>8, <1>11, <2>1 DEF FollowsQueue, OrderInv, BeforeIsStored
<1>. QED
    BY <1>10, <1>11, <1>12 DEF OrderInv

LEMMA OrderUserStep ==
    ASSUME OneWorker, IndInv, OrderInv, UserStep
    PROVE  OrderInv'
<1>1. CASE UNCHANGED <<state, arrived, before, worker>>
    BY <1>1 DEF OrderInv, ArrivalsAreOnce, BeforeIsStored, StartedInOrder, FollowsQueue, Started, IsBefore
<1>2. ASSUME NEW s \in Snapshots, BeginIngest(s) PROVE OrderInv'
    <2>1. /\ ArrivalsAreOnce' /\ \A a, b : IsBefore(a, b) => IsBefore(a, b)'
          /\ \A a \in Snapshots : state[a] # "absent" => IsBefore(a, s)'
        BY <1>2, ArrivesLast DEF OrderInv
    <2>2. /\ state[s] = "absent" /\ UNCHANGED worker
          /\ \A q \in Snapshots : state'[q] = IF q = s THEN "arriving" ELSE state[q]
          /\ before' \in [Snapshots -> SUBSET Snapshots]
          /\ \A q \in Snapshots : before'[q] =
               IF q = s THEN {t \in Snapshots : state[t] \notin {"absent", "arriving"}}
               ELSE before[q]
        BY <1>2 DEF BeginIngest, OrderInv, ArrivalsAreOnce, BeforeIsStored
    <2>3. BeforeIsStored'
        BY <2>1, <2>2 DEF OrderInv, BeforeIsStored
    <2>4. StartedInOrder'
        BY <2>2 DEF OrderInv, StartedInOrder, BeforeIsStored, Started
    <2>5. ASSUME NEW v \in Workers PROVE FollowsQueue(worker[v])'
        <3>1. PICK b : b = worker[v] /\ b = worker'[v] /\ FollowsQueue(b)
            BY <2>2 DEF OrderInv
        <3>. QED
            BY <2>2, <3>1 DEF FollowsQueue, Started, OrderInv, BeforeIsStored
    <2>. QED
        BY <2>1, <2>3, <2>4, <2>5 DEF OrderInv
<1>3. ASSUME NEW s \in Snapshots, IngestSnapshot(s) PROVE OrderInv'
    <2>1. /\ state[s] = "arriving" /\ UNCHANGED <<worker, arrived, before>>
          /\ \A q \in Snapshots : state'[q] = IF q = s THEN "queued" ELSE state[q]
        BY <1>3 DEF IngestSnapshot, OrderInv, ArrivalsAreOnce
    <2>2. ArrivalsAreOnce'
        BY <1>3, <2>1 DEF IngestSnapshot, OrderInv, ArrivalsAreOnce
    <2>3. BeforeIsStored' /\ StartedInOrder'
        BY <2>1 DEF OrderInv, BeforeIsStored, StartedInOrder, Started, IsBefore
    <2>4. ASSUME NEW v \in Workers PROVE FollowsQueue(worker[v])'
        <3>1. PICK b : b = worker[v] /\ b = worker'[v] /\ FollowsQueue(b)
            BY <2>1 DEF OrderInv
        <3>. QED
            BY <2>1, <3>1 DEF FollowsQueue, Started, OrderInv, BeforeIsStored
    <2>. QED
        BY <2>2, <2>3, <2>4 DEF OrderInv
<1>. QED
    BY <1>1, <1>2, <1>3 DEF UserStep, CreateAlertChannel, ResolveFinding

LEMMA OrderStep == ASSUME OneWorker PROVE IndInv /\ OrderInv /\ [Next]_vars => OrderInv'
<1>. SUFFICES ASSUME IndInv, OrderInv, [Next]_vars PROVE OrderInv'
    OBVIOUS
<1>1. ASSUME NEW w \in Workers, WorkerStep(w) PROVE OrderInv'
    BY <1>1, OrderListQueued, OrderMarkProcessing, OrderLoadContext, OrderRunSteps,
       OrderRolledBack, OrderFinish DEF WorkerStep, CheckRaises
<1>2. ASSUME NEW w \in Workers, Crash(w) PROVE OrderInv'
    BY <1>2, OrderRolledBack DEF Crash
<1>3. CASE UNCHANGED vars
    BY <1>3 DEF vars, dbVars, OrderInv, ArrivalsAreOnce, BeforeIsStored, StartedInOrder, FollowsQueue,
                Started, IsBefore
<1>. QED
    BY <1>1, <1>2, <1>3, OrderUserStep DEF Next

\* One worker starts a snapshot after all that were stored when it began to
\* arrive, whichever requests overlapped and whatever crashed.
THEOREM OrderInvariance ==
    ASSUME OneWorker
    PROVE  Spec => []OrderInv
<1>1. IndInv /\ OrderInv /\ [Next]_vars => OrderInv'
    BY OrderStep
<1>. QED
    BY <1>1, OrderInit, PipelineInvariance, PTL DEF Spec

\* With one worker the drift of a snapshot is not computed against one that began
\* to arrive after it was stored, whatever crashes and however batches were listed.
THEOREM PreviousIsAlwaysEarlier ==
    ASSUME OneWorker
    PROVE  Spec => []PreviousIsEarlier
<1>1. OrderInv => PreviousIsEarlier
    BY DEF OrderInv, FollowsQueue, PreviousIsEarlier, AtHand
<1>. QED
    BY <1>1, OrderInvariance, PTL

ServingNow == {AtHand(w) : w \in Workers} \ {None}

\* What is served is what the one worker has at hand.
LEMMA ServesItsOwn ==
    ASSUME OneWorker, NEW w \in Workers, NEW a, a = worker[w]
    PROVE  ServingNow = {a.hand} \ {None}
    BY DEF OneWorker, ServingNow, AtHand

LEMMA StepIsOfQueue ==
    ASSUME OneWorker, IndInv, OrderInv, [Next]_vars
    PROVE  [Queue!Next]_<<state, before, ServingNow>>
<1>. USE DEF Queue!Next
<1>1. ASSUME NEW s \in Snapshots, BeginIngest(s) PROVE Queue!Arrive(s)
    <2>1. Queue!Stored = {t \in Snapshots : state[t] \notin {"absent", "arriving"}}
        BY DEF Queue!Stored, Queue!Started, OrderInv, ArrivalsAreOnce
    <2>. QED
        BY <1>1, <2>1 DEF BeginIngest, Queue!Arrive, AtHand
<1>2. ASSUME NEW s \in Snapshots, IngestSnapshot(s) PROVE Queue!Store(s)
    BY <1>2 DEF IngestSnapshot, Queue!Store, AtHand
<1>3. ASSUME NEW w \in Workers, MarkProcessing(w) PROVE \E s \in Snapshots : Queue!Start(s)
    <2>1. PICK s \in worker[w].batch :
              /\ ComesFirst(s, worker[w].batch)
              /\ state' = [state EXCEPT ![s] = "processing"]
              /\ worker' = [worker EXCEPT ![w].stage = "load", ![w].hand = s, ![w].batch = @ \ {s}]
        BY <1>3 DEF MarkProcessing
    <2>2. PICK a : a = worker[w] /\ FollowsQueue(a) /\ s \in a.batch /\ ComesFirst(s, a.batch)
                   /\ a.stage = "mark"
        BY <1>3, <2>1 DEF OrderInv, MarkProcessing
    <2>3. s \in Snapshots /\ state[s] = "queued" /\ a.hand = None
        BY <2>2 DEF FollowsQueue
    <2>4. before[s] \subseteq Queue!Started
        <3>1. \A t \in before[s] : t \in Snapshots /\ ~IsBefore(s, t) /\ t # s
            BY <2>3, BeforeIsAnOrder DEF OrderInv, BeforeIsStored
        <3>. QED
            BY <2>2, <3>1 DEF FollowsQueue, ComesFirst, Started, Queue!Started
    <2>5. PICK b : b = worker'[w] /\ b.hand = s
        BY <2>1 DEF IndInv, Shape
    <2>6. ServingNow = {}
        BY <2>2, <2>3, ServesItsOwn
    <2>7. ServingNow' = {s}
        BY <2>3, <2>5, NoneAssumption DEF OneWorker, ServingNow, AtHand
    <2>8. Queue!Start(s)
        BY <1>3, <2>1, <2>3, <2>4, <2>6, <2>7 DEF MarkProcessing, Queue!Start, ServingNow
    <2>. QED
        BY <2>3, <2>8
<1>4. ASSUME NEW w \in Workers, Finish(w) PROVE \E s \in Snapshots : Queue!End(s)
    <2>1. PICK a : a = worker[w] /\ FollowsQueue(a) /\ a.stage = "finish"
        BY <1>4 DEF OrderInv, Finish
    <2>2. a.hand \in Snapshots /\ state[a.hand] = "processing"
        BY <2>1 DEF FollowsQueue
    <2>3. PICK b : b = worker'[w] /\ b.hand = None
        <3>1. PICK b : b = [Resting EXCEPT !.stage = IF a.batch = {} THEN "idle" ELSE "mark",
                                           !.batch = a.batch]
            OBVIOUS
        <3>2. worker'[w] = b
            BY <1>4, <2>1, <3>1 DEF Finish, IndInv, Shape
        <3>. QED
            BY <3>1, <3>2 DEF Resting
    <2>4. ServingNow = {a.hand}
        BY <2>1, <2>2, ServesItsOwn, NoneAssumption
    <2>5. ServingNow' = {}
        BY <2>3 DEF OneWorker, ServingNow, AtHand
    <2>6. Queue!End(a.hand)
        BY <1>4, <2>1, <2>2, <2>4, <2>5 DEF Finish, AtHand, Queue!End, ServingNow
    <2>. QED
        BY <2>2, <2>6
<1>5. ASSUME NEW w \in Workers, RolledBack(w)
      PROVE  [Queue!Fail]_<<state, before, ServingNow>>
    <2>1. PICK b : b = worker'[w] /\ b.hand = None
        BY <1>5 DEF RolledBack, Resting, IndInv, Shape
    <2>2. ServingNow' = {}
        BY <2>1 DEF OneWorker, ServingNow, AtHand
    <2>. QED
        BY <1>5, <2>2 DEF RolledBack, Queue!Fail, ServingNow
<1>6. ASSUME UNCHANGED <<state, before>>, \A w \in Workers : worker'[w].hand = worker[w].hand
      PROVE  UNCHANGED <<state, before, ServingNow>>
    BY <1>6 DEF ServingNow, AtHand
<1>7. ASSUME NEW w \in Workers,
             \/ ListQueued(w) \/ LoadContext(w) \/ SkipCheck(w) \/ RunCheck(w)
             \/ CommitFindings(w) \/ ListChannels(w) \/ CommitAlerts(w)
             \/ \E p \in Pairs, status \in {"sent", "failed"} : SendAlert(w, p, status)
      PROVE  UNCHANGED <<state, before>> /\ \A v \in Workers : worker'[v].hand = worker[v].hand
    <2>1. ASSUME NEW a, worker' = [worker EXCEPT ![w] = a], a.hand = worker[w].hand
          PROVE  \A v \in Workers : worker'[v].hand = worker[v].hand
        BY <2>1 DEF IndInv, Shape
    <2>2. CASE ListQueued(w)
        <3>1. PICK b : b = worker[w] /\ FollowsQueue(b) /\ b.stage = "idle"
            BY <2>2 DEF OrderInv, ListQueued
        <3>2. PICK a : a = [Resting EXCEPT !.stage = "mark", !.batch = QueuedFor(w)]
            OBVIOUS
        <3>3. a.hand = None /\ b.hand = None
            BY <3>1, <3>2 DEF Resting, FollowsQueue
        <3>4. worker' = [worker EXCEPT ![w] = a] /\ UNCHANGED <<state, before>>
            BY <2>2, <3>2 DEF ListQueued, dbVars
        <3>. QED
            BY <2>1, <3>1, <3>3, <3>4
    <2>3. CASE LoadContext(w)
        <3>1. PICK b : b = worker[w]
            OBVIOUS
        <3>2. PICK p : worker' = [worker EXCEPT ![w].stage = "check", ![w].prev = p, ![w].next = 1]
            BY <2>3 DEF LoadContext
        <3>3. PICK a : a = [b EXCEPT !.stage = "check", !.prev = p, !.next = 1]
            OBVIOUS
        <3>4. /\ DOMAIN b = {"stage", "batch", "hand", "prev", "next", "made", "sent", "to"}
              /\ w \in DOMAIN worker
            BY <3>1 DEF IndInv, Shape
        <3>5. worker' = [worker EXCEPT ![w] = a] /\ a.hand = b.hand
            BY <3>1, <3>2, <3>3, <3>4
        <3>6. UNCHANGED <<state, before>>
            BY <2>3 DEF LoadContext, dbVars
        <3>. QED
            BY <2>1, <3>1, <3>5, <3>6
    <2>. QED
        BY <1>7, <2>1, <2>2, <2>3, RunGoesOn
<1>8. ASSUME UserStep
      PROVE  \/ \E s \in Snapshots : BeginIngest(s) \/ IngestSnapshot(s)
             \/ UNCHANGED <<state, before, worker>>
    BY <1>8 DEF UserStep, CreateAlertChannel, ResolveFinding
<1>9. CASE UNCHANGED <<state, before, worker>>
    BY <1>6, <1>9
<1>10. CASE UserStep
    BY <1>1, <1>2, <1>8, <1>9, <1>10
<1>11. CASE \E w \in Workers : WorkerStep(w)
    BY <1>3, <1>4, <1>5, <1>6, <1>7, <1>11 DEF WorkerStep, CheckRaises
<1>12. CASE \E w \in Workers : Crash(w)
    BY <1>5, <1>12 DEF Crash
<1>13. CASE UNCHANGED vars
    BY <1>9, <1>13 DEF vars, dbVars
<1>. QED
    BY <1>10, <1>11, <1>12, <1>13 DEF Next

\* One worker implements the queue of SnapshotQueue: whatever crashes and however
\* requests overlap, it serves snapshots one at a time, starts one once and after
\* all that were stored when it began to arrive, and what is done stays done.
THEOREM QueueImplemented ==
    ASSUME OneWorker
    PROVE  Spec => QueueSpec
<1>1. Init => Queue!Init
    BY DEF Init, Queue!Init, AtHand, Resting
<1>2. IndInv /\ OrderInv /\ [Next]_vars => [Queue!Next]_(Queue!queueVars)
    BY StepIsOfQueue DEF ServingNow, Queue!queueVars
<1>3. Spec => []OrderInv
    BY OrderInvariance
<1>. QED
    BY <1>1, <1>2, <1>3, PipelineInvariance, PTL DEF Spec, QueueSpec, Queue!Spec

-----------------------------------------------------------------------------

LEMMA RunInit == Init => RunInv
<1>. SUFFICES ASSUME Init PROVE RunInv
    OBVIOUS
<1>1. ASSUME NEW w \in Workers PROVE OwesAlerts(worker[w])
    <2>1. PICK a : a = worker[w] /\ a.made = {} /\ a.stage = "idle"
        BY DEF Init, Resting
    <2>. QED
        BY <2>1 DEF OwesAlerts
<1>2. \A f \in Findings : finding[f] = "absent"
    BY DEF Init
<1>. QED
    BY <1>1, <1>2 DEF RunInv, FindingsHaveStarted, NoRepeatedFinding, DoneIsAlerted

\* Without findings committed, resolved, or their snapshots done, what was
\* true of the committed ones stays so.
LEMMA RunKept ==
    ASSUME OneWorker, IndInv, OrderInv, RunInv,
           UNCHANGED <<finding, owed, delivered>>,
           \A f \in Findings : finding[f] # "absent" => origin'[f] = origin[f],
           \A s \in Snapshots : /\ Started(s) => Started(s)'
                                /\ state'[s] = "done" => state[s] = "done",
           NEW w \in Workers, NEW a, worker' = [worker EXCEPT ![w] = a],
           OwesAlerts(worker[w])'
    PROVE  RunInv'
<1>1. \A v \in Workers : OwesAlerts(worker[v])'
    BY DEF OneWorker
<1>2. FindingsHaveStarted'
    BY DEF RunInv, FindingsHaveStarted
<1>3. NoRepeatedFinding'
    BY DEF RunInv, NoRepeatedFinding
<1>4. DoneIsAlerted'
    BY DEF RunInv, FindingsHaveStarted, DoneIsAlerted
<1>. QED
    BY <1>1, <1>2, <1>3, <1>4 DEF RunInv

\* Between two snapshots, nothing is owed.
LEMMA RunBetween ==
    ASSUME OneWorker, IndInv, OrderInv, RunInv, NEW w \in Workers,
           ListQueued(w) \/ RolledBack(w)
    PROVE  RunInv'
<1>1. PICK a : worker' = [worker EXCEPT ![w] = a] /\ a.made = {} /\ a.stage \in {"idle", "mark"}
    <2>1. CASE ListQueued(w)
        <3>1. PICK b : b = [Resting EXCEPT !.stage = "mark", !.batch = QueuedFor(w)]
            OBVIOUS
        <3>2. worker' = [worker EXCEPT ![w] = b]
            BY <2>1, <3>1 DEF ListQueued
        <3>3. b.made = {} /\ b.stage = "mark"
            BY <3>1, RestingIsSound
        <3>. QED
            BY <3>2, <3>3
    <2>2. CASE RolledBack(w)
        <3>1. worker' = [worker EXCEPT ![w] = Resting]
            BY <2>2 DEF RolledBack
        <3>. QED
            BY <3>1, RestingIsSound
    <2>. QED
        BY <2>1, <2>2
<1>2. worker'[w] = a
    BY <1>1 DEF IndInv, Shape
<1>3. OwesAlerts(worker[w])'
    BY <1>1, <1>2 DEF OwesAlerts
<1>4. UNCHANGED <<finding, owed, delivered, state>>
      /\ \A f \in Findings : finding[f] # "absent" => origin'[f] = origin[f]
    BY DEF ListQueued, RolledBack, dbVars
<1>5. \A s \in Snapshots : /\ Started(s) => Started(s)'
                           /\ state'[s] = "done" => state[s] = "done"
    BY <1>4 DEF Started
<1>. QED
    BY <1>1, <1>3, <1>4, <1>5, RunKept

\* A snapshot that was queued has no findings.
LEMMA RunMarkProcessing ==
    ASSUME OneWorker, IndInv, OrderInv, RunInv, NEW w \in Workers, MarkProcessing(w)
    PROVE  RunInv'
<1>1. PICK s \in worker[w].batch :
          /\ state' = [state EXCEPT ![s] = "processing"]
          /\ worker' = [worker EXCEPT ![w].stage = "load", ![w].hand = s, ![w].batch = @ \ {s}]
    BY DEF MarkProcessing
<1>2. PICK b : b = worker[w]
    OBVIOUS
<1>3. /\ DOMAIN b = {"stage", "batch", "hand", "prev", "next", "made", "sent", "to"}
      /\ w \in DOMAIN worker /\ FollowsQueue(b) /\ b.stage = "mark" /\ s \in b.batch
      /\ ByStage(b)
    BY <1>1, <1>2 DEF IndInv, Shape, OrderInv, MarkProcessing
<1>4. PICK a : a = [b EXCEPT !.stage = "load", !.hand = s, !.batch = @ \ {s}]
    OBVIOUS
<1>5. worker' = [worker EXCEPT ![w] = a]
    BY <1>1, <1>2, <1>3, <1>4
<1>6. a.stage = "load" /\ a.hand = s /\ a.made = {}
    BY <1>3, <1>4 DEF ByStage
<1>7. worker'[w] = a
    BY <1>3, <1>5
<1>8. s \in Snapshots /\ state[s] = "queued" /\ UNCHANGED <<finding, owed, delivered, origin>>
    BY <1>3 DEF FollowsQueue, MarkProcessing
<1>9. \A f \in Findings : finding[f] # "absent" => origin[f].snapshot # s
    BY <1>8 DEF RunInv, FindingsHaveStarted, Started
<1>10. OwesAlerts(worker[w])'
    BY <1>6, <1>7, <1>8, <1>9 DEF OwesAlerts
<1>11. \A t \in Snapshots : /\ Started(t) => Started(t)'
                            /\ state'[t] = "done" => state[t] = "done"
    BY <1>1, <1>8 DEF Started, OrderInv, ArrivalsAreOnce
<1>. QED
    BY <1>5, <1>8, <1>10, <1>11, RunKept

LEMMA RunLoadContext ==
    ASSUME OneWorker, IndInv, OrderInv, RunInv, NEW w \in Workers, LoadContext(w)
    PROVE  RunInv'
<1>1. PICK p :
          worker' = [worker EXCEPT ![w].stage = "check", ![w].prev = p, ![w].next = 1]
    BY DEF LoadContext
<1>2. PICK b : b = worker[w]
    OBVIOUS
<1>3. /\ DOMAIN b = {"stage", "batch", "hand", "prev", "next", "made", "sent", "to"}
      /\ w \in DOMAIN worker /\ b.stage = "load" /\ ByStage(b) /\ OwesAlerts(b)
    BY <1>1, <1>2 DEF IndInv, Shape, RunInv, LoadContext
<1>4. PICK a : a = [b EXCEPT !.stage = "check", !.prev = p, !.next = 1]
    OBVIOUS
<1>5. worker' = [worker EXCEPT ![w] = a]
    BY <1>1, <1>2, <1>3, <1>4
<1>6. a.stage = "check" /\ a.hand = b.hand /\ a.made = {}
    BY <1>3, <1>4 DEF ByStage
<1>7. worker'[w] = a
    BY <1>3, <1>5
<1>8. UNCHANGED <<finding, owed, delivered, origin, state>>
    BY DEF LoadContext, dbVars
<1>9. OwesAlerts(worker[w])'
    BY <1>3, <1>6, <1>7, <1>8 DEF OwesAlerts
<1>. QED
    BY <1>5, <1>8, <1>9, RunKept DEF Started

\* The rest of a run changes neither the snapshot at hand nor any state.
LEMMA RunSkipCheck ==
    ASSUME OneWorker, IndInv, OrderInv, RunInv, NEW w \in Workers, SkipCheck(w)
    PROVE  RunInv'
<1>1. PICK b : b = worker[w]
    OBVIOUS
<1>2. /\ DOMAIN b = {"stage", "batch", "hand", "prev", "next", "made", "sent", "to"}
      /\ w \in DOMAIN worker /\ b.stage = "check" /\ OwesAlerts(b)
    BY <1>1 DEF IndInv, Shape, RunInv, SkipCheck
<1>3. PICK a : a = [b EXCEPT !.next = @ + 1]
    OBVIOUS
<1>4. worker' = [worker EXCEPT ![w] = a]
    BY <1>1, <1>2, <1>3 DEF SkipCheck
<1>5. a.stage = "check" /\ a.hand = b.hand /\ a.made = b.made /\ worker'[w] = a
    BY <1>2, <1>3, <1>4
<1>6. UNCHANGED <<finding, owed, delivered, origin, state>>
    BY DEF SkipCheck, dbVars
<1>7. OwesAlerts(worker[w])'
    BY <1>2, <1>5, <1>6 DEF OwesAlerts, SameCheck
<1>. QED
    BY <1>4, <1>6, <1>7, RunKept DEF Started

\* A check runs when none of its findings is open on the firewall.
LEMMA RunRunCheck ==
    ASSUME OneWorker, IndInv, OrderInv, RunInv, NEW w \in Workers, RunCheck(w)
    PROVE  RunInv'
<1>1. PICK b : b = worker[w]
    OBVIOUS
<1>2. PICK k : k = Checks[b.next]
    OBVIOUS
<1>3. PICK found \in SUBSET Unused :
          /\ worker' = [worker EXCEPT ![w].next = @ + 1, ![w].made = @ \union found]
          /\ origin' = [f \in Findings |-> IF f \in found
                                           THEN [snapshot |-> b.hand, check |-> k]
                                           ELSE origin[f]]
    BY <1>1, <1>2 DEF RunCheck, AtHand
<1>4. /\ DOMAIN b = {"stage", "batch", "hand", "prev", "next", "made", "sent", "to"}
      /\ w \in DOMAIN worker /\ b.stage = "check" /\ OwesAlerts(b) /\ ByStage(b)
      /\ b.made \subseteq Findings
      /\ OpenOf(FirewallOf[b.hand], k) = {}
    BY <1>1, <1>2 DEF IndInv, Shape, RunInv, RunCheck, AtHand
<1>5. PICK a : a = [b EXCEPT !.next = @ + 1, !.made = @ \union found]
    OBVIOUS
<1>6. worker' = [worker EXCEPT ![w] = a]
    BY <1>1, <1>3, <1>4, <1>5
<1>7. a.stage = "check" /\ a.hand = b.hand /\ a.made = b.made \union found /\ worker'[w] = a
    BY <1>4, <1>5, <1>6
<1>8. UNCHANGED <<finding, owed, delivered, state>>
    BY DEF RunCheck
<1>9. \A f \in found : f \in Findings /\ finding[f] = "absent" /\ f \notin b.made
    BY <1>1 DEF Unused
<1>10. /\ \A f \in found : origin'[f].snapshot = b.hand /\ origin'[f].check = k
       /\ \A f \in Findings : f \notin found => origin'[f] = origin[f]
    BY <1>3, <1>9
<1>11. \A f \in found, g \in Findings : finding[g] = "open" => ~SameCheck(f, g)'
    <2>1. SUFFICES ASSUME NEW f \in found, NEW g \in Findings, finding[g] = "open"
                   PROVE  ~SameCheck(f, g)'
        OBVIOUS
    <2>2. origin'[g] = origin[g]
        BY <1>9, <1>10, <2>1
    <2>3. ~(FirewallOf[origin[g].snapshot] = FirewallOf[b.hand] /\ origin[g].check = k)
        BY <1>4, <2>1 DEF OpenOf
    <2>. QED
        BY <1>10, <2>2, <2>3 DEF SameCheck
<1>12. \A f \in b.made, g \in Findings : finding[g] = "open" => ~SameCheck(f, g)'
    <2>1. \A f \in b.made, g \in Findings : finding[g] = "open" => ~SameCheck(f, g)
        BY <1>4 DEF OwesAlerts
    <2>. QED
        BY <1>4, <1>9, <1>10, <2>1 DEF SameCheck
<1>13. OwesAlerts(worker[w])'
    <2>1. \A f \in a.made : origin'[f].snapshot = a.hand
        BY <1>4, <1>7, <1>9, <1>10 DEF OwesAlerts
    <2>2. \A f \in Findings : finding[f] # "absent" => origin'[f].snapshot # a.hand
        BY <1>4, <1>7, <1>9, <1>10 DEF OwesAlerts
    <2>. QED
        BY <1>7, <1>8, <1>11, <1>12, <2>1, <2>2 DEF OwesAlerts
<1>. QED
    BY <1>6, <1>8, <1>9, <1>10, <1>13, RunKept DEF Started

\* The commit opens findings of one snapshot, where none of their check was.
LEMMA RunCommitFindings ==
    ASSUME OneWorker, IndInv, OrderInv, RunInv, NEW w \in Workers, CommitFindings(w)
    PROVE  RunInv'
<1>1. PICK b : b = worker[w]
    OBVIOUS
<1>2. PICK stage \in {"finish", "alert"} :
          /\ worker' = [worker EXCEPT ![w].stage = stage]
          /\ stage = "finish" => b.made = {}
    BY <1>1 DEF CommitFindings
<1>3. /\ DOMAIN b = {"stage", "batch", "hand", "prev", "next", "made", "sent", "to"}
      /\ w \in DOMAIN worker /\ b.stage = "check" /\ OwesAlerts(b) /\ ByStage(b)
      /\ b.made \subseteq Findings /\ FollowsQueue(b)
    BY <1>1 DEF IndInv, Shape, RunInv, OrderInv, CommitFindings
<1>4. PICK a : a = [b EXCEPT !.stage = stage]
    OBVIOUS
<1>5. worker' = [worker EXCEPT ![w] = a]
    BY <1>1, <1>2, <1>3, <1>4
<1>6. a.stage = stage /\ a.hand = b.hand /\ a.made = b.made /\ worker'[w] = a
    BY <1>3, <1>4, <1>5
<1>7. /\ UNCHANGED <<delivered, state, origin, channels>>
      /\ \A f \in Findings : finding'[f] = IF f \in b.made THEN "open" ELSE finding[f]
      /\ \A f \in Findings : owed'[f] = IF f \in b.made THEN channels ELSE owed[f]
    BY <1>1 DEF CommitFindings
<1>8. /\ \A f \in b.made : finding[f] = "absent" /\ origin[f].snapshot = b.hand
      /\ b.hand \in Snapshots /\ state[b.hand] = "processing"
      /\ \A f \in Findings : finding[f] # "absent" => origin[f].snapshot # b.hand
    BY <1>3 DEF ByStage, OwesAlerts, FollowsQueue
<1>9. FindingsHaveStarted'
    BY <1>7, <1>8 DEF RunInv, FindingsHaveStarted, Started
<1>10. ASSUME NEW v \in Workers PROVE OwesAlerts(worker[v])'
    <2>1. worker'[v] = a
        BY <1>6 DEF OneWorker
    <2>2. \A f \in Findings : finding'[f] # "absent" /\ origin'[f].snapshot = a.hand => f \in a.made
        BY <1>6, <1>7, <1>8
    <2>3. a.stage \in {"finish", "alert"} /\ (a.stage = "finish" => a.made = {})
        BY <1>2, <1>6
    <2>4. \A f \in a.made : origin'[f].snapshot = a.hand /\ owed'[f] \subseteq channels'
        BY <1>3, <1>6, <1>7, <1>8
    <2>. QED
        BY <2>1, <2>2, <2>3, <2>4 DEF OwesAlerts
<1>11. NoRepeatedFinding'
    <2>1. SUFFICES ASSUME NEW f \in Findings, NEW g \in Findings,
                          finding'[f] = "open", finding'[g] = "open", SameCheck(f, g)
                   PROVE  origin[f].snapshot = origin[g].snapshot
        BY <1>7 DEF NoRepeatedFinding, SameCheck
    <2>2. CASE f \in b.made /\ g \in b.made
        BY <1>8, <2>2
    <2>3. CASE f \notin b.made /\ g \notin b.made
        BY <1>7, <2>1, <2>3 DEF RunInv, NoRepeatedFinding, SameCheck
    <2>4. CASE f \in b.made /\ g \notin b.made
        BY <1>3, <1>7, <2>1, <2>4 DEF OwesAlerts
    <2>5. CASE f \notin b.made /\ g \in b.made
        <3>1. SameCheck(g, f)
            BY <2>1 DEF SameCheck
        <3>. QED
            BY <1>3, <1>7, <2>1, <2>5, <3>1 DEF OwesAlerts
    <2>. QED
        BY <2>2, <2>3, <2>4, <2>5
<1>12. DoneIsAlerted'
    BY <1>7, <1>8 DEF RunInv, DoneIsAlerted
<1>. QED
    BY <1>9, <1>10, <1>11, <1>12 DEF RunInv

\* Channels are only added, so none that was owed an alert is missing.
LEMMA RunListChannels ==
    ASSUME OneWorker, IndInv, OrderInv, RunInv, NEW w \in Workers, ListChannels(w)
    PROVE  RunInv'
<1>1. PICK b : b = worker[w]
    OBVIOUS
<1>2. PICK stage \in {"finish", "send"} :
          /\ worker' = [worker EXCEPT ![w].stage = stage, ![w].to = channels]
          /\ stage = "finish" => channels = {}
    BY DEF ListChannels
<1>3. /\ DOMAIN b = {"stage", "batch", "hand", "prev", "next", "made", "sent", "to"}
      /\ w \in DOMAIN worker /\ b.stage = "alert" /\ OwesAlerts(b)
    BY <1>1 DEF IndInv, Shape, RunInv, ListChannels
<1>4. PICK a : a = [b EXCEPT !.stage = stage, !.to = channels]
    OBVIOUS
<1>5. worker' = [worker EXCEPT ![w] = a]
    BY <1>1, <1>2, <1>3, <1>4
<1>6. a.stage = stage /\ a.hand = b.hand /\ a.made = b.made /\ a.to = channels /\ worker'[w] = a
    BY <1>3, <1>4, <1>5
<1>7. UNCHANGED <<finding, owed, delivered, origin, state>>
    BY DEF ListChannels, dbVars
<1>8. OwesAlerts(worker[w])'
    BY <1>2, <1>3, <1>6, <1>7 DEF OwesAlerts, Alerted
<1>. QED
    BY <1>5, <1>7, <1>8, RunKept DEF Started

LEMMA RunSendAlert ==
    ASSUME OneWorker, IndInv, OrderInv, RunInv, NEW w \in Workers,
           NEW p \in Pairs, NEW status \in {"sent", "failed"}, SendAlert(w, p, status)
    PROVE  RunInv'
<1>1. PICK b : b = worker[w]
    OBVIOUS
<1>2. PICK d : worker' = [worker EXCEPT ![w].sent = @ \union {d}]
    BY DEF SendAlert
<1>3. /\ DOMAIN b = {"stage", "batch", "hand", "prev", "next", "made", "sent", "to"}
      /\ w \in DOMAIN worker /\ b.stage = "send" /\ OwesAlerts(b)
    BY <1>1 DEF IndInv, Shape, RunInv, SendAlert
<1>4. PICK a : a = [b EXCEPT !.sent = @ \union {d}]
    OBVIOUS
<1>5. worker' = [worker EXCEPT ![w] = a]
    BY <1>1, <1>2, <1>3, <1>4
<1>6. a.stage = "send" /\ a.hand = b.hand /\ a.made = b.made /\ a.to = b.to /\ worker'[w] = a
    BY <1>3, <1>4, <1>5
<1>7. UNCHANGED <<finding, owed, delivered, origin, state>>
    BY DEF SendAlert, dbVars
<1>8. OwesAlerts(worker[w])'
    BY <1>3, <1>6, <1>7 DEF OwesAlerts
<1>. QED
    BY <1>5, <1>7, <1>8, RunKept DEF Started

\* The commit comes when an e-mail to every channel was tried.
LEMMA RunCommitAlerts ==
    ASSUME OneWorker, IndInv, OrderInv, RunInv, NEW w \in Workers, CommitAlerts(w)
    PROVE  RunInv'
<1>1. PICK b : b = worker[w]
    OBVIOUS
<1>2. /\ DOMAIN b = {"stage", "batch", "hand", "prev", "next", "made", "sent", "to"}
      /\ w \in DOMAIN worker /\ b.stage = "send" /\ OwesAlerts(b)
      /\ b.sent \subseteq Deliveries /\ Unsent(w) = {}
    BY <1>1 DEF IndInv, Shape, RunInv, CommitAlerts
<1>3. PICK a : a = [b EXCEPT !.stage = "finish"]
    OBVIOUS
<1>4. worker' = [worker EXCEPT ![w] = a]
    BY <1>1, <1>2, <1>3 DEF CommitAlerts
<1>5. a.stage = "finish" /\ a.hand = b.hand /\ a.made = b.made /\ worker'[w] = a
    BY <1>2, <1>3, <1>4
<1>6. UNCHANGED <<finding, owed, origin, state>> /\ delivered' = delivered \union b.sent
    BY <1>1 DEF CommitAlerts
<1>7. \A f \in b.made : Alerted(f)'
    <2>1. SUFFICES ASSUME NEW f \in b.made, NEW c \in owed[f]
                   PROVE  \E status \in {"sent", "failed"} : <<f, c, status>> \in delivered'
        BY <1>6 DEF Alerted
    <2>2. <<f, c>> \in b.made \X b.to
        BY <1>2 DEF OwesAlerts
    <2>3. PICK d \in b.sent : <<d[1], d[2]>> = <<f, c>>
        BY <1>1, <1>2, <2>2 DEF Unsent
    <2>4. d = <<f, c, d[3]>> /\ d[3] \in {"sent", "failed"}
        BY <1>2, <2>3 DEF Deliveries
    <2>. QED
        BY <1>6, <2>3, <2>4
<1>8. OwesAlerts(worker[w])'
    BY <1>2, <1>5, <1>6, <1>7 DEF OwesAlerts
<1>9. \A v \in Workers : OwesAlerts(worker[v])'
    BY <1>8 DEF OneWorker
<1>10. FindingsHaveStarted' /\ NoRepeatedFinding' /\ DoneIsAlerted'
    BY <1>6 DEF RunInv, FindingsHaveStarted, Started, NoRepeatedFinding, DoneIsAlerted
<1>. QED
    BY <1>9, <1>10 DEF RunInv

\* The findings of the snapshot that becomes done are those of its run.
LEMMA RunFinish ==
    ASSUME OneWorker, IndInv, OrderInv, RunInv, NEW w \in Workers, Finish(w)
    PROVE  RunInv'
<1>1. PICK b : b = worker[w]
    OBVIOUS
<1>2. /\ b.stage = "finish" /\ OwesAlerts(b) /\ FollowsQueue(b)
    BY <1>1 DEF RunInv, OrderInv, Finish
<1>3. PICK a : a = [Resting EXCEPT !.stage = IF b.batch = {} THEN "idle" ELSE "mark",
                                   !.batch = b.batch]
    OBVIOUS
<1>4. worker' = [worker EXCEPT ![w] = a] /\ UNCHANGED <<finding, owed, delivered, origin>>
      /\ state' = [state EXCEPT ![b.hand] = "done"]
    BY <1>1, <1>3 DEF Finish, AtHand
<1>5. a.made = {} /\ a.stage \in {"idle", "mark"}
    BY <1>3 DEF Resting
<1>6. \A v \in Workers : worker'[v] = a
    BY <1>4 DEF OneWorker, IndInv, Shape
<1>7. \A v \in Workers : OwesAlerts(worker[v])'
    BY <1>5, <1>6 DEF OwesAlerts
<1>8. \A s \in Snapshots : state'[s] = IF s = b.hand THEN "done" ELSE state[s]
    BY <1>4 DEF OrderInv, ArrivalsAreOnce
<1>9. FindingsHaveStarted'
    BY <1>4, <1>8 DEF RunInv, FindingsHaveStarted, Started
<1>10. NoRepeatedFinding'
    BY <1>4 DEF RunInv, NoRepeatedFinding
<1>11. DoneIsAlerted'
    <2>1. SUFFICES ASSUME NEW f \in Findings, finding[f] # "absent",
                          state'[origin[f].snapshot] = "done"
                   PROVE  Alerted(f)
        BY <1>4 DEF DoneIsAlerted, Alerted
    <2>2. origin[f].snapshot \in Snapshots
        BY <2>1 DEF RunInv, FindingsHaveStarted
    <2>3. CASE origin[f].snapshot = b.hand
        BY <1>2, <2>1, <2>3 DEF OwesAlerts
    <2>4. CASE origin[f].snapshot # b.hand
        BY <1>8, <2>1, <2>2, <2>4 DEF RunInv, DoneIsAlerted, Alerted
    <2>. QED
        BY <2>3, <2>4
<1>. QED
    BY <1>7, <1>9, <1>10, <1>11 DEF RunInv

LEMMA RunUserStep ==
    ASSUME OneWorker, IndInv, OrderInv, RunInv, UserStep
    PROVE  RunInv'
<1>1. /\ UNCHANGED <<worker, origin, owed, delivered>> /\ channels \subseteq channels'
      /\ \A f \in Findings : finding'[f] = "absent" <=> finding[f] = "absent"
      /\ \A f \in Findings : finding'[f] = "open" => finding[f] = "open"
    BY DEF UserStep, BeginIngest, IngestSnapshot, CreateAlertChannel, ResolveFinding, IndInv, Shape
<1>2. \A s \in Snapshots : Started(s)' <=> Started(s)
    BY DEF UserStep, BeginIngest, IngestSnapshot, CreateAlertChannel, ResolveFinding, OrderInv,
           ArrivalsAreOnce, Started
<1>3. \A s \in Snapshots : state'[s] = "done" <=> state[s] = "done"
    BY DEF UserStep, BeginIngest, IngestSnapshot, CreateAlertChannel, ResolveFinding, OrderInv, ArrivalsAreOnce
<1>4. ASSUME NEW v \in Workers PROVE OwesAlerts(worker[v])'
    <2>1. PICK b : b = worker[v] /\ b = worker'[v] /\ OwesAlerts(b) /\ b.made \subseteq Findings
        BY <1>1 DEF RunInv, IndInv, Shape
    <2>. QED
        BY <1>1, <2>1 DEF OwesAlerts, SameCheck, Alerted
<1>5. FindingsHaveStarted'
    BY <1>1, <1>2 DEF RunInv, FindingsHaveStarted
<1>6. NoRepeatedFinding'
    BY <1>1 DEF RunInv, NoRepeatedFinding
<1>7. DoneIsAlerted'
    BY <1>1, <1>3 DEF RunInv, FindingsHaveStarted, DoneIsAlerted
<1>. QED
    BY <1>4, <1>5, <1>6, <1>7 DEF RunInv

LEMMA RunStep == ASSUME OneWorker PROVE IndInv /\ OrderInv /\ RunInv /\ [Next]_vars => RunInv'
<1>. SUFFICES ASSUME IndInv, OrderInv, RunInv, [Next]_vars PROVE RunInv'
    OBVIOUS
<1>1. ASSUME NEW w \in Workers, WorkerStep(w) PROVE RunInv'
    BY <1>1, RunBetween, RunMarkProcessing, RunLoadContext, RunSkipCheck, RunRunCheck,
       RunCommitFindings, RunListChannels, RunSendAlert, RunCommitAlerts, RunFinish
    DEF WorkerStep, CheckRaises
<1>2. ASSUME NEW w \in Workers, Crash(w) PROVE RunInv'
    BY <1>2, RunBetween DEF Crash
<1>3. CASE UNCHANGED vars
    BY <1>3 DEF vars, dbVars, RunInv, FindingsHaveStarted, Started, OwesAlerts, SameCheck,
                Alerted, NoRepeatedFinding, DoneIsAlerted
<1>. QED
    BY <1>1, <1>2, <1>3, RunUserStep DEF Next

\* One worker analyzes a snapshot once, and owes the alerts of what it found.
THEOREM RunInvariance ==
    ASSUME OneWorker
    PROVE  Spec => []RunInv
<1>1. IndInv /\ OrderInv /\ RunInv /\ [Next]_vars => RunInv'
    BY RunStep
<1>2. Spec => []OrderInv
    BY OrderInvariance
<1>. QED
    BY <1>1, <1>2, RunInit, PipelineInvariance, PTL DEF Spec

\* With one worker the open findings of a check on a firewall come from one
\* snapshot: what a run found is never found again while it is open.
THEOREM FindingsAreNotRepeated ==
    ASSUME OneWorker
    PROVE  Spec => []NoRepeatedFinding
<1>1. RunInv => NoRepeatedFinding
    BY DEF RunInv
<1>. QED
    BY <1>1, RunInvariance, PTL

\* With one worker a snapshot is shown as done only when the alerts of all its
\* findings were tried on every channel there was when they were committed.
THEOREM DoneIsAlwaysAlerted ==
    ASSUME OneWorker
    PROVE  Spec => []DoneIsAlerted
<1>1. RunInv => DoneIsAlerted
    BY DEF RunInv
<1>. QED
    BY <1>1, RunInvariance, PTL

-----------------------------------------------------------------------------
(***************************************************************************)
(* Type correctness, with any number of workers.                           *)
(***************************************************************************)

\* A worker past the mark has a snapshot at hand.
HoldsSnapshot == \A w \in Workers : worker[w].stage \notin {"idle", "mark"} => AtHand(w) \in Snapshots

TypeInv == TypeOK /\ HoldsSnapshot

LEMMA RestingType == Resting \in Activities
    BY ChecksAssumption DEF Resting, Activities, Stages

\* A worker's next activity, and what else the step changes, have their types.
LEMMA TypeKept ==
    ASSUME TypeInv, NEW w \in Workers, NEW a \in Activities,
           a.stage \notin {"idle", "mark"} => a.hand \in Snapshots,
           worker' = [worker EXCEPT ![w] = a]
    PROVE  worker' \in [Workers -> Activities] /\ HoldsSnapshot'
    BY DEF TypeInv, TypeOK, HoldsSnapshot, AtHand

LEMMA TypeListQueued ==
    ASSUME TypeInv, NEW w \in Workers, ListQueued(w) PROVE TypeInv'
<1>1. PICK a : a = [Resting EXCEPT !.stage = "mark", !.batch = QueuedFor(w)]
    OBVIOUS
<1>2. QueuedFor(w) \in SUBSET Snapshots
    BY DEF QueuedFor, Oldest
<1>3. a \in Activities /\ a.stage = "mark"
    BY <1>1, <1>2, RestingType DEF Activities, Stages
<1>4. worker' = [worker EXCEPT ![w] = a] /\ locks' = [locks EXCEPT ![w] = QueuedFor(w)]
      /\ UNCHANGED <<dbVars, emails, crashes>>
    BY <1>1 DEF ListQueued
<1>5. worker' \in [Workers -> Activities] /\ HoldsSnapshot'
    BY <1>3, <1>4, TypeKept
<1>. QED
    BY <1>2, <1>4, <1>5 DEF TypeInv, TypeOK, dbVars

LEMMA TypeMarkProcessing ==
    ASSUME TypeInv, NEW w \in Workers, MarkProcessing(w) PROVE TypeInv'
<1>1. PICK b \in Activities : b = worker[w]
    BY DEF TypeInv, TypeOK
<1>2. PICK s \in b.batch :
          /\ state' = [state EXCEPT ![s] = "processing"]
          /\ worker' = [worker EXCEPT ![w].stage = "load", ![w].hand = s, ![w].batch = @ \ {s}]
    BY <1>1 DEF MarkProcessing
<1>3. PICK a : a = [b EXCEPT !.stage = "load", !.hand = s, !.batch = @ \ {s}]
    OBVIOUS
<1>4. s \in Snapshots /\ b.batch \ {s} \in SUBSET Snapshots
    BY DEF Activities
<1>5. a \in Activities /\ a.hand = s
    BY <1>3, <1>4 DEF Activities, Stages
<1>6. worker' = [worker EXCEPT ![w] = a]
    BY <1>1, <1>2, <1>3 DEF TypeInv, TypeOK
<1>7. worker' \in [Workers -> Activities] /\ HoldsSnapshot'
    BY <1>4, <1>5, <1>6, TypeKept
<1>. QED
    BY <1>2, <1>4, <1>7 DEF MarkProcessing, TypeInv, TypeOK

LEMMA TypeLoadContext ==
    ASSUME TypeInv, NEW w \in Workers, LoadContext(w) PROVE TypeInv'
<1>1. PICK b \in Activities : b = worker[w]
    BY DEF TypeInv, TypeOK
<1>2. PICK p \in PreviousOf(AtHand(w)) :
          worker' = [worker EXCEPT ![w].stage = "check", ![w].prev = p, ![w].next = 1]
    BY DEF LoadContext
<1>3. PICK a : a = [b EXCEPT !.stage = "check", !.prev = p, !.next = 1]
    OBVIOUS
<1>4. p \in Snapshots \union {None} /\ b.hand \in Snapshots /\ 1 \in 1..Len(Checks) + 1
    BY <1>1, ChecksAssumption DEF PreviousOf, LoadContext, TypeInv, HoldsSnapshot, AtHand
<1>5. a \in Activities /\ a.hand = b.hand
    BY <1>3, <1>4 DEF Activities, Stages
<1>6. worker' = [worker EXCEPT ![w] = a]
    BY <1>1, <1>2, <1>3 DEF TypeInv, TypeOK
<1>7. worker' \in [Workers -> Activities] /\ HoldsSnapshot'
    BY <1>4, <1>5, <1>6, TypeKept
<1>. QED
    BY <1>7 DEF LoadContext, dbVars, TypeInv, TypeOK

LEMMA TypeChecks ==
    ASSUME TypeInv, NEW w \in Workers, SkipCheck(w) \/ RunCheck(w) PROVE TypeInv'
<1>1. PICK b \in Activities : b = worker[w]
    BY DEF TypeInv, TypeOK
<1>2. /\ b.hand \in Snapshots /\ b.next \in 1..Len(Checks)
      /\ b.next + 1 \in 1..Len(Checks) + 1 /\ Checks[b.next] \in DOMAIN MaxYield
    <2>1. Len(Checks) \in Nat /\ b.next \in 1..Len(Checks) + 1 /\ b.next <= Len(Checks)
        BY <1>1, ChecksAssumption DEF SkipCheck, RunCheck, Activities
    <2>2. b.hand \in Snapshots
        BY <1>1 DEF SkipCheck, RunCheck, TypeInv, HoldsSnapshot, AtHand
    <2>. QED
        BY <2>1, <2>2, ChecksAssumption
<1>3. PICK found \in SUBSET Findings :
          /\ worker' = [worker EXCEPT ![w] = [b EXCEPT !.next = @ + 1, !.made = @ \union found]]
          /\ \/ origin' = origin
             \/ origin' = [f \in Findings |-> IF f \in found
                              THEN [snapshot |-> b.hand, check |-> Checks[b.next]]
                              ELSE origin[f]]
    <2>1. CASE SkipCheck(w)
        <3>1. [b EXCEPT !.next = @ + 1] = [b EXCEPT !.next = @ + 1, !.made = @ \union {}]
            BY DEF Activities
        <3>2. worker' = [worker EXCEPT ![w] = [b EXCEPT !.next = @ + 1]]
            BY <1>1, <2>1 DEF SkipCheck, TypeInv, TypeOK
        <3>3. worker' = [worker EXCEPT ![w] = [b EXCEPT !.next = @ + 1, !.made = @ \union {}]]
            BY <3>1, <3>2
        <3>4. origin' = origin
            BY <2>1 DEF SkipCheck, dbVars
        <3>. WITNESS {} \in SUBSET Findings
        <3>. QED
            BY <3>3, <3>4
    <2>2. CASE RunCheck(w)
        <3>1. PICK found \in SUBSET Unused :
                  /\ worker' = [worker EXCEPT ![w].next = @ + 1, ![w].made = @ \union found]
                  /\ origin' = [f \in Findings |-> IF f \in found
                                   THEN [snapshot |-> b.hand, check |-> Checks[b.next]]
                                   ELSE origin[f]]
            BY <1>1, <2>2 DEF RunCheck, AtHand
        <3>2. worker' = [worker EXCEPT ![w] = [b EXCEPT !.next = @ + 1, !.made = @ \union found]]
            BY <1>1, <3>1 DEF TypeInv, TypeOK
        <3>3. found \in SUBSET Findings
            BY DEF Unused
        <3>. QED
            BY <3>1, <3>2, <3>3
    <2>. QED
        BY <2>1, <2>2
<1>4. PICK a : a = [b EXCEPT !.next = @ + 1, !.made = @ \union found]
    OBVIOUS
<1>5. a \in Activities /\ a.hand = b.hand
    BY <1>2, <1>4 DEF Activities
<1>6. worker' = [worker EXCEPT ![w] = a]
    BY <1>3, <1>4
<1>7. worker' \in [Workers -> Activities] /\ HoldsSnapshot'
    BY <1>2, <1>5, <1>6, TypeKept
<1>8. origin' \in [Findings -> Origins \union {NoOrigin}]
    BY <1>2, <1>3 DEF TypeInv, TypeOK, Origins
<1>9. UNCHANGED <<state, arrived, before, finding, owed, channels, delivered, emails, locks,
               crashes>>
    BY DEF SkipCheck, RunCheck, dbVars
<1>. QED
    BY <1>7, <1>8, <1>9 DEF TypeInv, TypeOK

LEMMA TypeCommitFindings ==
    ASSUME TypeInv, NEW w \in Workers, CommitFindings(w) PROVE TypeInv'
<1>1. PICK b \in Activities : b = worker[w]
    BY DEF TypeInv, TypeOK
<1>2. PICK stage \in {"finish", "alert"} : worker' = [worker EXCEPT ![w].stage = stage]
    BY DEF CommitFindings
<1>3. PICK a : a = [b EXCEPT !.stage = stage]
    OBVIOUS
<1>4. b.hand \in Snapshots
    BY <1>1 DEF CommitFindings, TypeInv, HoldsSnapshot, AtHand
<1>5. a \in Activities /\ a.hand = b.hand
    BY <1>3 DEF Activities, Stages
<1>6. worker' = [worker EXCEPT ![w] = a]
    BY <1>1, <1>2, <1>3 DEF TypeInv, TypeOK
<1>7. worker' \in [Workers -> Activities] /\ HoldsSnapshot'
    BY <1>4, <1>5, <1>6, TypeKept
<1>8. finding' \in [Findings -> {"absent", "open", "resolved"}]
      /\ owed' \in [Findings -> SUBSET Channels]
    BY DEF CommitFindings, TypeInv, TypeOK
<1>. QED
    BY <1>7, <1>8 DEF CommitFindings, TypeInv, TypeOK

LEMMA TypeAlerts ==
    ASSUME TypeInv, NEW w \in Workers,
           \/ ListChannels(w) \/ CommitAlerts(w)
           \/ \E p \in Pairs, status \in {"sent", "failed"} : SendAlert(w, p, status)
    PROVE  TypeInv'
<1>1. PICK b \in Activities : b = worker[w]
    BY DEF TypeInv, TypeOK
<1>2. b.hand \in Snapshots
    BY <1>1 DEF ListChannels, CommitAlerts, SendAlert, TypeInv, HoldsSnapshot, AtHand
<1>3. ASSUME NEW a \in Activities, a.hand = b.hand, worker' = [worker EXCEPT ![w] = a]
      PROVE  worker' \in [Workers -> Activities] /\ HoldsSnapshot'
    BY <1>2, <1>3, TypeKept
<1>4. CASE ListChannels(w)
    <2>1. PICK stage \in {"finish", "send"} :
              worker' = [worker EXCEPT ![w].stage = stage, ![w].to = channels]
        BY <1>4 DEF ListChannels
    <2>2. PICK a : a = [b EXCEPT !.stage = stage, !.to = channels]
        OBVIOUS
    <2>3. a \in Activities /\ a.hand = b.hand
        BY <2>2 DEF Activities, Stages, TypeInv, TypeOK
    <2>4. worker' = [worker EXCEPT ![w] = a]
        BY <1>1, <2>1, <2>2 DEF TypeInv, TypeOK
    <2>. QED
        BY <1>3, <1>4, <2>3, <2>4 DEF ListChannels, dbVars, TypeInv, TypeOK
<1>5. CASE CommitAlerts(w)
    <2>1. PICK a : a = [b EXCEPT !.stage = "finish"]
        OBVIOUS
    <2>2. a \in Activities /\ a.hand = b.hand
        BY <2>1 DEF Activities, Stages
    <2>3. worker' = [worker EXCEPT ![w] = a]
        BY <1>1, <1>5, <2>1 DEF CommitAlerts, TypeInv, TypeOK
    <2>4. delivered' \subseteq Deliveries
        BY <1>1, <1>5 DEF CommitAlerts, Activities, TypeInv, TypeOK
    <2>. QED
        BY <1>3, <1>5, <2>2, <2>3, <2>4 DEF CommitAlerts, TypeInv, TypeOK
<1>6. ASSUME NEW p \in Pairs, NEW status \in {"sent", "failed"}, SendAlert(w, p, status)
      PROVE  TypeInv'
    <2>1. PICK d \in Deliveries : d = <<p[1], p[2], status>>
        BY DEF Pairs, Deliveries
    <2>2. PICK a : a = [b EXCEPT !.sent = @ \union {d}]
        OBVIOUS
    <2>3. a \in Activities /\ a.hand = b.hand
        BY <2>2 DEF Activities
    <2>4. worker' = [worker EXCEPT ![w].sent = @ \union {d}]
        BY <1>6, <2>1 DEF SendAlert
    <2>5. worker' = [worker EXCEPT ![w] = a]
        BY <1>1, <2>2, <2>4 DEF TypeInv, TypeOK
    <2>6. emails' \in [Pairs -> Nat]
        BY <1>6 DEF SendAlert, TypeInv, TypeOK
    <2>. QED
        BY <1>3, <1>6, <2>3, <2>5, <2>6 DEF SendAlert, dbVars, TypeInv, TypeOK
<1>. QED
    BY <1>4, <1>5, <1>6

LEMMA TypeFinish ==
    ASSUME TypeInv, NEW w \in Workers, Finish(w) PROVE TypeInv'
<1>1. PICK b \in Activities : b = worker[w]
    BY DEF TypeInv, TypeOK
<1>2. PICK a : a = [Resting EXCEPT !.stage = IF b.batch = {} THEN "idle" ELSE "mark",
                                   !.batch = b.batch]
    OBVIOUS
<1>3. a \in Activities /\ a.stage \in {"idle", "mark"}
    BY <1>2, RestingType DEF Activities, Stages
<1>4. worker' = [worker EXCEPT ![w] = a]
    BY <1>1, <1>2 DEF Finish
<1>5. worker' \in [Workers -> Activities] /\ HoldsSnapshot'
    BY <1>3, <1>4, TypeKept
<1>. QED
    BY <1>5 DEF Finish, TypeInv, TypeOK

LEMMA TypeRolledBack ==
    ASSUME TypeInv, NEW w \in Workers, RolledBack(w), crashes' \in 0..MaxCrashes PROVE TypeInv'
<1>1. worker' \in [Workers -> Activities] /\ HoldsSnapshot'
    BY RestingType, RestingIsSound, TypeKept DEF RolledBack
<1>2. origin' \in [Findings -> Origins \union {NoOrigin}]
    BY DEF RolledBack, TypeInv, TypeOK
<1>. QED
    BY <1>1, <1>2 DEF RolledBack, TypeInv, TypeOK

LEMMA TypeUserStep == ASSUME TypeInv, UserStep PROVE TypeInv'
<1>1. ASSUME NEW s \in Snapshots, BeginIngest(s) PROVE TypeInv'
    <2>1. arrived' \in Seq(Snapshots)
        BY <1>1 DEF BeginIngest, TypeInv, TypeOK
    <2>2. before' \in [Snapshots -> SUBSET Snapshots]
        BY <1>1 DEF BeginIngest, TypeInv, TypeOK
    <2>3. state' \in [Snapshots -> {"absent", "arriving", "queued", "processing", "done"}]
        BY <1>1 DEF BeginIngest, TypeInv, TypeOK
    <2>. QED
        BY <1>1, <2>1, <2>2, <2>3 DEF BeginIngest, TypeInv, TypeOK, HoldsSnapshot, AtHand
<1>4. ASSUME NEW s \in Snapshots, IngestSnapshot(s) PROVE TypeInv'
    BY <1>4 DEF IngestSnapshot, TypeInv, TypeOK, HoldsSnapshot, AtHand
<1>2. ASSUME NEW c \in Channels, CreateAlertChannel(c) PROVE TypeInv'
    BY <1>2 DEF CreateAlertChannel, TypeInv, TypeOK, HoldsSnapshot, AtHand
<1>3. ASSUME NEW f \in Findings, ResolveFinding(f) PROVE TypeInv'
    BY <1>3 DEF ResolveFinding, TypeInv, TypeOK, HoldsSnapshot, AtHand
<1>. QED
    BY <1>1, <1>2, <1>3, <1>4 DEF UserStep

LEMMA TypeStep == TypeInv /\ [Next]_vars => TypeInv'
<1>. SUFFICES ASSUME TypeInv, [Next]_vars PROVE TypeInv'
    OBVIOUS
<1>1. crashes \in 0..MaxCrashes /\ MaxCrashes \in Nat
    BY BatchAssumption DEF TypeInv, TypeOK
<1>2. ASSUME NEW w \in Workers, WorkerStep(w) PROVE TypeInv'
    BY <1>1, <1>2, TypeListQueued, TypeMarkProcessing, TypeLoadContext, TypeChecks,
       TypeCommitFindings, TypeAlerts, TypeFinish, TypeRolledBack DEF WorkerStep, CheckRaises
<1>3. ASSUME NEW w \in Workers, Crash(w) PROVE TypeInv'
    <2>1. crashes' \in 0..MaxCrashes
        BY <1>1, <1>3 DEF Crash
    <2>. QED
        BY <1>3, <2>1, TypeRolledBack DEF Crash
<1>4. CASE UNCHANGED vars
    BY <1>4 DEF vars, dbVars, TypeInv, TypeOK, HoldsSnapshot, AtHand
<1>. QED
    BY <1>2, <1>3, <1>4, TypeUserStep DEF Next

\* Rows, locks and what each worker is doing stay within their types, with any
\* number of workers.
THEOREM PipelineTypeCorrect == Spec => []TypeOK
<1>1. Init => TypeInv
    BY RestingType, RestingIsSound, BatchAssumption
    DEF Init, TypeInv, TypeOK, HoldsSnapshot, Pairs
<1>2. TypeInv => TypeOK
    BY DEF TypeInv
<1>. QED
    BY <1>1, <1>2, TypeStep, PTL DEF Spec


=============================================================================
