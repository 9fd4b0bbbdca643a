----------------------------- MODULE VideoProofs -----------------------------
(***************************************************************************)
(* Proofs about the video of a server: VideoPipeline, for every set of     *)
(* subscriptions, every capacity of their queues and every value of the    *)
(* bounds, and TabCapture, for any number of starts, actions and frames.   *)
(***************************************************************************)
EXTENDS VideoPipeline, TabCapture, TLAPS

\* No subscription, no encoder, nothing on its way.
LEMMA InitInv == Init => PipelineInv
<1> SUFFICES ASSUME Init PROVE PipelineInv
  OBVIOUS
<1>1. TypeOK
  BY DEF Init, TypeOK, Subscription, AccessUnit, Pipeline, Encoder, Idle, NoAU, Name
<1>2. \A s \in Sub : QueueDecodable(s) /\ InStep(s)
  BY DEF Init, QueueDecodable, InStep
<1> QED
  BY <1>1, <1>2 DEF Init, PipelineInv, NeverStranded, OpenAreAttached, EncoderFollows,
     GenerationsPast, PushCurrent, Idle, NoAU

\* The subscription r has become w: an empty queue that waits for an IDR of
\* generation g.
Waits(w, r, g) == w.life = r.life /\ w.gen = g /\ w.dropped /\ w.q = <<>>

\* resetForGen makes a subscription wait.
LEMMA ResetForGenIs ==
  ASSUME NEW r \in Subscription, NEW g \in Nat
  PROVE  ResetForGen(r, g) \in Subscription /\ Waits(ResetForGen(r, g), r, g)
<1>1. <<>> \in Seq(AccessUnit)
  OBVIOUS
<1>2. ResetForGen(r, g) \in Subscription
  BY <1>1 DEF ResetForGen, Subscription
<1> QED
  BY <1>2 DEF ResetForGen, Subscription, Waits

\* resetForGen leaves a subscription with an empty queue that waits for an IDR of
\* generation g; the pump may have taken any of the units that were in the queue.
LEMMA ResetEffect ==
  ASSUME taken \in [Sub -> [enc : Nat, n : Nat]],
         NEW f \in [Sub -> Subscription], NEW attached \in SUBSET Sub, NEW g \in Nat,
         ResetSubs(f, attached, g)
  PROVE  /\ sub' \in [Sub -> Subscription]
         /\ taken' \in [Sub -> [enc : Nat, n : Nat]]
         /\ \A s \in Sub \ attached : sub'[s] = f[s] /\ taken'[s] = taken[s]
         /\ \A s \in attached : Waits(sub'[s], f[s], g)
<1> DEFINE Last(s) == {taken[s]} \cup
                      (IF s \in attached THEN {Name(au) : au \in Range(f[s].q)} ELSE {})
<1>1. sub' = [s \in Sub |-> IF s \in attached THEN ResetForGen(f[s], g) ELSE f[s]]
  BY DEF ResetSubs
<1>2. taken' \in [Sub -> UNION {Last(s) : s \in Sub}] /\ \A s \in Sub : taken'[s] \in Last(s)
  BY DEF ResetSubs
<1>5. ASSUME NEW s \in Sub PROVE Last(s) \subseteq [enc : Nat, n : Nat]
  <2>1. \A au \in AccessUnit : Name(au) \in [enc : Nat, n : Nat]
    BY DEF Name, AccessUnit
  <2>2. f[s].q \in Seq(AccessUnit)
    BY DEF Subscription
  <2>3. Range(f[s].q) \subseteq AccessUnit
    BY <2>2 DEF Range
  <2> QED
    BY <2>1, <2>3
<1>6. taken' \in [Sub -> [enc : Nat, n : Nat]]
  BY <1>2, <1>5
<1>7. \A s \in Sub \ attached : taken'[s] = taken[s]
  BY <1>2
<1> QED
  BY <1>1, <1>6, <1>7, ResetForGenIs

\* An empty queue that waits for an IDR is in order.
LEMMA WaitingInStep ==
  ASSUME NEW s \in Sub, sub'[s].q = <<>>, sub'[s].dropped
  PROVE  QueueDecodable(s)' /\ InStep(s)'
BY DEF QueueDecodable, InStep

\* One that is not open receives nothing more, and what it holds stays.
LEMMA DetachedInStep ==
  ASSUME NEW s \in Sub, QueueDecodable(s), sub[s].life # "open",
         sub'[s].gen = sub[s].gen, sub'[s].q = sub[s].q, sub'[s].life # "open",
         taken'[s] = taken[s]
  PROVE  QueueDecodable(s)' /\ InStep(s)'
BY DEF QueueDecodable, InStep

\* A subscription that a step leaves alone stays in order while the encoder's
\* generation, its frames and the unit inside Push stay, or a new generation
\* begins that it does not belong to.
LEMMA UntouchedInStep ==
  ASSUME PipelineInv, NEW s \in Sub, sub'[s] = sub[s], taken'[s] = taken[s], push' = push,
         pl'.gen \in Nat,
         \/ pl'.gen > pl.gen
         \/ pl'.gen = pl.gen /\ enc'.id = enc.id /\ enc'.n = enc.n
  PROVE  QueueDecodable(s)' /\ InStep(s)'
<1>1. QueueDecodable(s) /\ InStep(s) /\ sub[s].gen <= pl.gen /\ sub[s].gen \in Nat /\ pl.gen \in Nat
  BY DEF PipelineInv, GenerationsPast, TypeOK, Subscription, Pipeline
<1>2. QueueDecodable(s)'
  BY <1>1 DEF QueueDecodable
<1>3. Pending(s)' = Pending(s) /\ LastUnit(s)' = LastUnit(s)
  BY DEF Pending, LastUnit
<1>4. InStep(s)'
  BY <1>1, <1>3 DEF InStep
<1> QED
  BY <1>2, <1>4
\* Stopping and starting never go back to an earlier generation, and a start takes
\* a new one.
LEMMA LockedEffect ==
  ASSUME TypeOK, NEW ok \in BOOLEAN, NEW attached \in SUBSET Sub
  PROVE  /\ StopLocked(pl) \in Pipeline
         /\ StopLocked(pl).gen >= pl.gen
         /\ pl.running => StopLocked(pl).gen > pl.gen
         /\ \A p \in Pipeline : /\ StartLocked(p, ok, attached) \in Pipeline
                                /\ StartLocked(p, ok, attached).gen = p.gen + 1
                                /\ StartLocked(p, ok, attached).running = ok
                                /\ attached # {} /\ ~ok => StartLocked(p, ok, attached).retry
         /\ StoppedEncoder \in Encoder /\ ~StoppedEncoder.on
         /\ StartedEncoder(ok) \in Encoder /\ (StartedEncoder(ok).on => ok)
<1>1. pl \in Pipeline /\ enc \in Encoder
  BY DEF TypeOK
<1>2. StopLocked(pl) \in Pipeline /\ StopLocked(pl).gen >= pl.gen
      /\ (pl.running => StopLocked(pl).gen > pl.gen)
  <2>1. CASE pl.running
    <3>1. pl.gen + 1 \in Nat /\ pl.gen + 1 > pl.gen
      BY <1>1 DEF Pipeline
    <3>2. StopLocked(pl) = [pl EXCEPT !.retry = FALSE, !.keyframe = FALSE,
                                      !.running = FALSE, !.gen = @ + 1]
      BY <2>1 DEF StopLocked
    <3>3. \A g \in Nat : [pl EXCEPT !.retry = FALSE, !.keyframe = FALSE,
                                    !.running = FALSE, !.gen = g] \in Pipeline
      BY <1>1 DEF Pipeline
    <3>4. StopLocked(pl) \in Pipeline /\ StopLocked(pl).gen = pl.gen + 1
      BY <1>1, <3>1, <3>2, <3>3 DEF Pipeline
    <3> QED
      BY <1>1, <3>1, <3>4 DEF Pipeline
  <2>2. CASE ~pl.running
    <3>1. StopLocked(pl) = [pl EXCEPT !.retry = FALSE, !.keyframe = FALSE,
                                      !.running = FALSE, !.gen = @]
      BY <2>2 DEF StopLocked
    <3>2. StopLocked(pl) \in Pipeline /\ StopLocked(pl).gen = pl.gen
      BY <1>1, <3>1 DEF Pipeline
    <3> QED
      BY <1>1, <2>2, <3>2 DEF Pipeline
  <2> QED
    BY <2>1, <2>2
<1>3. ASSUME NEW p \in Pipeline
      PROVE  /\ StartLocked(p, ok, attached) \in Pipeline
             /\ StartLocked(p, ok, attached).gen = p.gen + 1
             /\ StartLocked(p, ok, attached).running = ok
             /\ attached # {} /\ ~ok => StartLocked(p, ok, attached).retry
  <2>1. p.gen + 1 \in Nat /\ (~ok /\ attached # {}) \in BOOLEAN
    BY DEF Pipeline
  <2>2. StartLocked(p, ok, attached) \in Pipeline
    BY <2>1 DEF StartLocked, Pipeline
  <2> QED
    BY <2>1, <2>2 DEF StartLocked, Pipeline
<1>4. StoppedEncoder \in Encoder /\ ~StoppedEncoder.on
  BY <1>1 DEF StoppedEncoder, Encoder
<1>5. StartedEncoder(ok) \in Encoder /\ (StartedEncoder(ok).on => ok)
  BY <1>1, <1>4 DEF StartedEncoder, Encoder
<1> QED
  BY <1>2, <1>3, <1>4, <1>5

\* The unit inside Push stays current when generation and encoder stay, when there
\* is no encoder, and when a new generation begins.
LEMMA PushStays ==
  ASSUME PipelineInv, push' = push, pl' \in Pipeline, pl'.gen \in Nat,
         \/ pl'.gen > pl.gen
         \/ pl'.gen = pl.gen /\ ~pl.running
         \/ pl'.gen = pl.gen /\ pl'.running = pl.running /\ enc'.id = enc.id /\ enc'.n = enc.n
  PROVE  PushCurrent'
BY DEF PipelineInv, TypeOK, PushCurrent, Pipeline, AccessUnit, Idle

\* Ask: every attached subscription waits for the IDR; generation and frames stay.
LEMMA AskKeeps ==
  ASSUME PipelineInv, NEW f \in [Sub -> Subscription], NEW attached \in SUBSET Sub,
         Ask(f, attached)
  PROVE  /\ sub' \in [Sub -> Subscription]
         /\ taken' \in [Sub -> [enc : Nat, n : Nat]]
         /\ \A s \in Sub \ attached : sub'[s] = f[s] /\ taken'[s] = taken[s]
         /\ \A s \in attached : Waits(sub'[s], f[s], pl.gen)
         /\ enc' \in Encoder /\ enc'.on = enc.on /\ enc'.id = enc.id /\ enc'.n = enc.n
<1>1. pl.gen \in Nat /\ ResetSubs(f, attached, pl.gen)
  BY DEF Ask, PipelineInv, TypeOK, Pipeline
<1>2. enc' \in Encoder /\ enc'.on = enc.on /\ enc'.id = enc.id /\ enc'.n = enc.n
  BY DEF Ask, PipelineInv, TypeOK, Encoder
<1> QED
  BY <1>1, <1>2, ResetEffect DEF PipelineInv, TypeOK
\* The operations that restart the encoder: attached subscriptions wait for the new
\* generation, which the others do not belong to.
LEMMA NewGeneration ==
  ASSUME PipelineInv, subs' = subs, push' = push, pl' \in Pipeline, enc' \in Encoder,
         enc'.on => pl'.running,
         subs # {} => pl'.running \/ pl'.retry,
         \/ pl'.gen > pl.gen
         \/ pl'.gen = pl.gen /\ ~pl.running,
         NEW g \in Nat, g = pl'.gen, ResetSubs(sub, subs, g)
  PROVE  PipelineInv'
<1>1. /\ pl'.gen \in Nat /\ pl.gen \in Nat /\ pl'.gen >= pl.gen
      /\ sub \in [Sub -> Subscription] /\ subs \in SUBSET Sub
      /\ taken \in [Sub -> [enc : Nat, n : Nat]]
  BY DEF Pipeline, PipelineInv, TypeOK
<1>2. /\ sub' \in [Sub -> Subscription]
      /\ taken' \in [Sub -> [enc : Nat, n : Nat]]
      /\ \A s \in Sub \ subs : sub'[s] = sub[s] /\ taken'[s] = taken[s]
      /\ \A s \in subs : Waits(sub'[s], sub[s], g)
  BY <1>1, ResetEffect
<1>3. TypeOK'
  BY <1>2 DEF PipelineInv, TypeOK
<1>4. NeverStranded' /\ EncoderFollows' /\ PushCurrent'
  BY <1>1, PushStays DEF PipelineInv, NeverStranded, EncoderFollows
<1>5. OpenAreAttached' /\ GenerationsPast'
  <2>1. OpenAreAttached /\ GenerationsPast /\ \A s \in Sub : sub[s].gen \in Nat
    BY <1>1 DEF PipelineInv, Subscription
  <2>2. ASSUME NEW s \in Sub
        PROVE  (sub'[s].life = "open" => s \in subs') /\ sub'[s].gen <= pl'.gen
    BY <1>1, <1>2, <2>1 DEF OpenAreAttached, GenerationsPast, Waits
  <2> QED
    BY <2>2 DEF OpenAreAttached, GenerationsPast
<1>6. ASSUME NEW s \in Sub PROVE QueueDecodable(s)' /\ InStep(s)'
  <2>1. CASE s \in subs
    BY <1>2, <2>1, WaitingInStep DEF Waits
  <2>2. CASE s \notin subs
    BY <1>2, <2>2, DetachedInStep DEF PipelineInv, OpenAreAttached
  <2> QED
    BY <2>1, <2>2
<1> QED
  BY <1>3, <1>4, <1>5, <1>6 DEF PipelineInv

LEMMA RestartInv ==
  ASSUME PipelineInv, NEW ok \in BOOLEAN, Restart(ok)
  PROVE  PipelineInv'
<1>1. TypeOK /\ subs \in SUBSET Sub
  BY DEF PipelineInv, TypeOK
<1>2. subs' = subs /\ push' = push /\ ResetSubs(sub, subs, pl'.gen)
  BY DEF Restart
<1>3. CASE subs # {}
  <2>1. pl' = StartLocked(StopLocked(pl), ok, subs) /\ enc' = StartedEncoder(ok)
    BY <1>3 DEF Restart, Cycle
  <2> QED
    BY <1>1, <1>2, <1>3, <2>1, LockedEffect, NewGeneration DEF TypeOK, Pipeline
<1>4. CASE subs = {}
  <2>1. pl' = StopLocked(pl) /\ enc' = StoppedEncoder
    BY <1>4 DEF Restart
  <2>2. CASE pl.running
    BY <1>1, <1>2, <1>4, <2>1, <2>2, LockedEffect, NewGeneration DEF TypeOK, Pipeline
  <2>3. CASE ~pl.running
    BY <1>1, <1>2, <1>4, <2>1, <2>3, LockedEffect, NewGeneration, SMTT(30) DEF TypeOK, Pipeline
  <2> QED
    BY <2>2, <2>3
<1> QED
  BY <1>3, <1>4

LEMMA ReconfigureInv ==
  ASSUME PipelineInv, NEW ok \in BOOLEAN, Reconfigure(ok)
  PROVE  PipelineInv'
<1>1. TypeOK /\ subs \in SUBSET Sub
  BY DEF PipelineInv, TypeOK
<1>2. subs' = subs /\ push' = push /\ ResetSubs(sub, subs, pl'.gen)
  BY DEF Reconfigure
<1>3. CASE pl.running
  <2>1. pl' = StartLocked(StopLocked(pl), ok, subs) /\ enc' = StartedEncoder(ok)
    BY <1>3 DEF Reconfigure, Cycle
  <2> QED
    BY <1>1, <1>2, <2>1, LockedEffect, NewGeneration DEF TypeOK, Pipeline
<1>4. CASE ~pl.running
  <2>1. pl' = pl /\ enc' = enc
    BY <1>4 DEF Reconfigure
  <2> QED
    <3>1. /\ pl' \in Pipeline /\ enc' \in Encoder /\ pl'.gen = pl.gen /\ pl.gen \in Nat
          /\ enc'.on => pl'.running
          /\ subs # {} => pl'.running \/ pl'.retry
          /\ ResetSubs(sub, subs, pl.gen)
      BY <1>1, <1>2, <2>1 DEF TypeOK, Pipeline, PipelineInv, NeverStranded, EncoderFollows
    <3> QED
      BY <1>2, <1>4, <3>1, NewGeneration
<1> QED
  BY <1>3, <1>4

LEMMA RetryStartInv ==
  ASSUME PipelineInv, NEW ok \in BOOLEAN, RetryStart(ok)
  PROVE  PipelineInv'
<1>1. TypeOK /\ subs \in SUBSET Sub
  BY DEF PipelineInv, TypeOK
<1>2. subs' = subs /\ push' = push
  BY DEF RetryStart
<1>3. CASE subs = {} \/ pl.running
  <2>1. pl' = [pl EXCEPT !.retry = FALSE] /\ UNCHANGED <<enc, sub, taken>>
    BY <1>3 DEF RetryStart
  <2>2. pl' \in Pipeline /\ pl'.gen = pl.gen /\ pl'.running = pl.running
    BY <1>1, <2>1 DEF TypeOK, Pipeline
  <2>3. TypeOK' /\ NeverStranded' /\ OpenAreAttached' /\ EncoderFollows' /\ GenerationsPast' /\ PushCurrent'
    BY <1>2, <1>3, <2>1, <2>2, PushStays
    DEF PipelineInv, TypeOK, NeverStranded, OpenAreAttached, EncoderFollows, GenerationsPast, Pipeline
  <2>4. ASSUME NEW s \in Sub PROVE QueueDecodable(s)' /\ InStep(s)'
    BY <1>2, <2>1, <2>2, UntouchedInStep DEF Pipeline
  <2> QED
    BY <2>3, <2>4 DEF PipelineInv
<1>4. CASE ~(subs = {} \/ pl.running)
  <2>1. /\ pl' = StartLocked(pl, ok, subs) /\ enc' = StartedEncoder(ok)
        /\ ResetSubs(sub, subs, pl.gen + 1)
    BY <1>4 DEF RetryStart
  <2>2. pl'.gen = pl.gen + 1
    BY <1>1, <2>1, LockedEffect DEF TypeOK
  <2> QED
    BY <1>1, <1>2, <2>1, <2>2, LockedEffect, NewGeneration DEF TypeOK, Pipeline
<1> QED
  BY <1>3, <1>4
\* Subscribe: the new subscription starts the encoder, or waits for the keyframe
\* that is asked for now or after the cooldown.
LEMMA SubscribeInv ==
  ASSUME PipelineInv, NEW s \in Sub, NEW ok \in BOOLEAN, Subscribe(s, ok)
  PROVE  PipelineInv'
<1> DEFINE opened == [sub[s] EXCEPT !.life = "open"]
<1>1. /\ TypeOK /\ subs \in SUBSET Sub /\ subs' = subs \cup {s} /\ subs' \in SUBSET Sub
      /\ push' = push /\ pl \in Pipeline /\ pl.gen \in Nat /\ enc \in Encoder
      /\ sub \in [Sub -> Subscription] /\ taken \in [Sub -> [enc : Nat, n : Nat]]
  BY DEF PipelineInv, TypeOK, Subscribe, Pipeline
<1>2. opened \in Subscription /\ opened.life = "open"
  BY <1>1 DEF Subscription
<1> HIDE DEF opened
<1>3. ASSUME NEW g \in Nat, g <= pl'.gen,
             /\ sub' \in [Sub -> Subscription] /\ taken' \in [Sub -> [enc : Nat, n : Nat]]
             /\ Waits(sub'[s], opened, g)
             /\ pl' \in Pipeline /\ enc' \in Encoder /\ (enc'.on => pl'.running)
             /\ pl'.running \/ pl'.retry,
             \/ pl'.gen > pl.gen
             \/ pl'.gen = pl.gen /\ pl'.running = pl.running /\ enc'.id = enc.id /\ enc'.n = enc.n,
             \A r \in Sub \ {s} : \/ sub'[r] = sub[r] /\ taken'[r] = taken[r]
                                  \/ r \in subs /\ Waits(sub'[r], sub[r], g)
      PROVE  PipelineInv'
  <2>1. TypeOK'
    BY <1>1, <1>3 DEF TypeOK
  <2>2. NeverStranded' /\ EncoderFollows' /\ PushCurrent'
    BY <1>1, <1>3, PushStays DEF NeverStranded, EncoderFollows, Pipeline
  <2>3. ASSUME NEW r \in Sub
        PROVE  (sub'[r].life = "open" => r \in subs') /\ sub'[r].gen <= pl'.gen
    <3>1. OpenAreAttached /\ GenerationsPast /\ sub[r].gen \in Nat /\ pl'.gen \in Nat /\ pl'.gen >= pl.gen
      BY <1>1, <1>3, SMTT(30) DEF PipelineInv, Subscription, Pipeline
    <3> QED
      BY <1>1, <1>3, <3>1, SMTT(30) DEF OpenAreAttached, GenerationsPast, Waits
  <2>4. ASSUME NEW r \in Sub PROVE QueueDecodable(r)' /\ InStep(r)'
    <3>1. CASE sub'[r] = sub[r] /\ taken'[r] = taken[r]
      BY <1>1, <1>3, <3>1, UntouchedInStep DEF Pipeline
    <3>2. CASE sub'[r].dropped /\ sub'[r].q = <<>>
      BY <3>2, WaitingInStep
    <3> QED
      BY <1>3, <3>1, <3>2 DEF Waits
  <2> QED
    BY <2>1, <2>2, <2>3, <2>4 DEF PipelineInv, OpenAreAttached, GenerationsPast
<1>4. CASE ~pl.running
  <2>1. /\ pl' = StartLocked(pl, ok, subs \cup {s}) /\ enc' = StartedEncoder(ok)
        /\ sub' = [sub EXCEPT ![s] = ResetForGen(opened, pl.gen + 1)]
        /\ taken' = taken
    BY <1>4 DEF Subscribe, SubscribeStart, SubscribeRunning, opened
  <2>2. /\ pl' \in Pipeline /\ pl'.gen = pl.gen + 1 /\ pl'.running = ok
        /\ pl'.running \/ pl'.retry
        /\ enc' \in Encoder /\ (enc'.on => pl'.running)
    BY <1>1, <2>1, LockedEffect
  <2>3. pl.gen + 1 \in Nat /\ pl'.gen > pl.gen
    BY <1>1, <2>2
  <2>4. sub' \in [Sub -> Subscription] /\ Waits(sub'[s], opened, pl.gen + 1)
        /\ \A r \in Sub \ {s} : sub'[r] = sub[r]
    BY <1>1, <1>2, <2>1, <2>3, ResetForGenIs
  <2> QED
    BY <1>1, <1>3, <2>1, <2>2, <2>3, <2>4
<1>5. CASE pl.running
  <2> DEFINE f == [sub EXCEPT ![s] = ResetForGen(opened, pl.gen)]
  <2>1. EnsureKeyframe(f, subs \cup {s})
    BY <1>5 DEF Subscribe, SubscribeStart, SubscribeRunning, opened
  <2>2. f \in [Sub -> Subscription] /\ Waits(f[s], opened, pl.gen)
        /\ \A r \in Sub \ {s} : f[r] = sub[r]
    BY <1>1, <1>2, ResetForGenIs
  <2> HIDE DEF f
  <2>3. CASE cooling
    <3>1. /\ pl' = [pl EXCEPT !.keyframe = TRUE] /\ sub' = f /\ enc' = enc /\ taken' = taken
      BY <2>1, <2>3 DEF EnsureKeyframe
    <3>2. /\ pl' \in Pipeline /\ pl'.gen = pl.gen /\ pl'.running = pl.running
      BY <1>1, <3>1 DEF Pipeline
    <3>3. enc' \in Encoder /\ (enc'.on => pl'.running) /\ pl.gen <= pl'.gen
      BY <1>1, <1>5, <3>1, <3>2
    <3> QED
      BY <1>1, <1>3, <1>5, <2>2, <3>1, <3>2, <3>3
  <2>4. CASE ~cooling
    <3>1. Ask(f, subs \cup {s}) /\ pl' = pl
      BY <2>1, <2>4 DEF EnsureKeyframe
    <3>2. /\ sub' \in [Sub -> Subscription]
          /\ taken' \in [Sub -> [enc : Nat, n : Nat]]
          /\ \A r \in Sub \ (subs \cup {s}) : sub'[r] = f[r] /\ taken'[r] = taken[r]
          /\ \A r \in subs \cup {s} : Waits(sub'[r], f[r], pl.gen)
          /\ enc' \in Encoder /\ enc'.on = enc.on /\ enc'.id = enc.id /\ enc'.n = enc.n
      BY <1>1, <2>2, <3>1, AskKeeps
    <3>3. Waits(sub'[s], opened, pl.gen)
      BY <2>2, <3>2 DEF Waits
    <3>4. pl' \in Pipeline /\ pl'.running /\ pl'.gen = pl.gen /\ pl.gen <= pl'.gen
          /\ pl'.running = pl.running
      <4>1. pl.gen <= pl.gen
        BY <1>1
      <4> QED
        BY <1>1, <1>5, <3>1, <4>1
    <3>5. \A r \in Sub \ {s} : \/ sub'[r] = sub[r] /\ taken'[r] = taken[r]
                               \/ r \in subs /\ Waits(sub'[r], sub[r], pl.gen)
      BY <2>2, <3>2
    <3> QED
      BY <1>1, <1>3, <3>2, <3>3, <3>4, <3>5
  <2> QED
    BY <2>3, <2>4
<1> QED
  BY <1>4, <1>5
\* A keyframe request, at once or when the cooldown has ended: every attached
\* subscription waits for it, in the generation that it has.
LEMMA KeyframeInv ==
  ASSUME PipelineInv, RequestKeyframe \/ DeferredKeyframe
  PROVE  PipelineInv'
<1>1. /\ TypeOK /\ subs \in SUBSET Sub /\ subs' = subs
      /\ push' = push /\ pl \in Pipeline /\ pl.gen \in Nat /\ enc \in Encoder
      /\ sub \in [Sub -> Subscription] /\ taken \in [Sub -> [enc : Nat, n : Nat]]
  BY DEF PipelineInv, TypeOK, RequestKeyframe, DeferredKeyframe, Pipeline
<1>2. /\ pl' \in Pipeline /\ pl'.gen = pl.gen /\ pl'.running = pl.running /\ pl'.retry = pl.retry
      /\ \/ enc' = enc /\ sub' = sub /\ taken' = taken
         \/ Ask(sub, subs)
  BY <1>1 DEF RequestKeyframe, DeferredKeyframe, EnsureKeyframe, Pipeline
<1>3. CASE enc' = enc /\ sub' = sub /\ taken' = taken
  <2>1. TypeOK' /\ PushCurrent'
    BY <1>1, <1>2, <1>3, PushStays DEF TypeOK
  <2>2. NeverStranded' /\ OpenAreAttached' /\ EncoderFollows' /\ GenerationsPast'
    BY <1>1, <1>2, <1>3
    DEF PipelineInv, NeverStranded, OpenAreAttached, EncoderFollows, GenerationsPast
  <2>3. ASSUME NEW s \in Sub PROVE QueueDecodable(s)' /\ InStep(s)'
    BY <1>1, <1>2, <1>3, UntouchedInStep
  <2> QED
    BY <2>1, <2>2, <2>3 DEF PipelineInv
<1>4. CASE Ask(sub, subs)
  <2>1. /\ sub' \in [Sub -> Subscription]
        /\ taken' \in [Sub -> [enc : Nat, n : Nat]]
        /\ \A s \in Sub \ subs : sub'[s] = sub[s] /\ taken'[s] = taken[s]
        /\ \A s \in subs : Waits(sub'[s], sub[s], pl.gen)
        /\ enc' \in Encoder /\ enc'.on = enc.on /\ enc'.id = enc.id /\ enc'.n = enc.n
    BY <1>1, <1>4, AskKeeps
  <2>2. TypeOK'
    BY <1>1, <1>2, <2>1 DEF TypeOK
  <2>3. PushCurrent'
    BY <1>1, <1>2, <2>1, PushStays
  <2>4. NeverStranded' /\ EncoderFollows'
    BY <1>1, <1>2, <2>1 DEF PipelineInv, NeverStranded, EncoderFollows
  <2>5. ASSUME NEW s \in Sub
        PROVE  (sub'[s].life = "open" => s \in subs') /\ sub'[s].gen <= pl'.gen
    BY <1>1, <1>2, <2>1 DEF PipelineInv, OpenAreAttached, GenerationsPast, Waits
  <2>6. ASSUME NEW s \in Sub PROVE QueueDecodable(s)' /\ InStep(s)'
    <3>1. CASE s \in subs
      BY <2>1, <3>1, WaitingInStep DEF Waits
    <3>2. CASE s \notin subs
      BY <1>1, <1>2, <2>1, <3>2, UntouchedInStep
    <3> QED
      BY <3>1, <3>2
  <2> QED
    BY <2>2, <2>3, <2>4, <2>5, <2>6 DEF PipelineInv, OpenAreAttached, GenerationsPast
<1> QED
  BY <1>2, <1>3, <1>4

\* Close, the idle callback and Shutdown: who leaves is no longer open, and the
\* encoder stops only when nobody is left.
LEMMA LeaveInv ==
  ASSUME PipelineInv,
         \/ \E s \in Sub : Close(s)
         \/ IdleCallback
         \/ Shutdown
  PROVE  PipelineInv'
<1>1. /\ TypeOK /\ subs \in SUBSET Sub /\ subs' \subseteq subs
      /\ push' = push /\ pl \in Pipeline /\ pl.gen \in Nat /\ enc \in Encoder
      /\ sub \in [Sub -> Subscription] /\ taken' = taken
  BY DEF PipelineInv, TypeOK, Close, IdleCallback, Shutdown, Pipeline
\* The pipeline stays, but for a retry that nobody needs, or stops for nobody.
<1>2. \/ /\ pl' = pl \/ (pl' = [pl EXCEPT !.retry = FALSE] /\ subs' = {})
         /\ enc' = enc
      \/ pl' = StopLocked(pl) /\ enc' = StoppedEncoder /\ subs' = {}
  BY <1>1 DEF Close, IdleCallback, Shutdown
<1>3. \/ /\ pl' \in Pipeline /\ pl'.gen = pl.gen /\ pl'.running = pl.running /\ enc' = enc
         /\ pl'.retry = pl.retry \/ subs' = {}
      \/ /\ pl' \in Pipeline /\ subs' = {} /\ enc' \in Encoder /\ ~enc'.on
         /\ pl'.gen > pl.gen \/ (pl'.gen = pl.gen /\ ~pl.running)
  <2>1. CASE pl' = StopLocked(pl) /\ enc' = StoppedEncoder /\ subs' = {}
    <3>1. /\ StopLocked(pl) \in Pipeline /\ StoppedEncoder \in Encoder /\ ~StoppedEncoder.on
          /\ StopLocked(pl).gen > pl.gen \/ (StopLocked(pl).gen = pl.gen /\ ~pl.running)
      BY <1>1, LockedEffect DEF StopLocked, Pipeline
    <3> QED
      BY <2>1, <3>1
  <2>2. CASE (pl' = pl \/ (pl' = [pl EXCEPT !.retry = FALSE] /\ subs' = {})) /\ enc' = enc
    BY <1>1, <2>2 DEF Pipeline
  <2> QED
    BY <1>2, <2>1, <2>2
\* Who stays attached is left alone, who leaves is closed.
<1>4. /\ sub' \in [Sub -> Subscription]
      /\ \A s \in Sub : \/ sub'[s] = sub[s] /\ (s \in subs => s \in subs')
                        \/ /\ sub'[s].life = "closed"
                           /\ sub'[s].gen = sub[s].gen /\ sub'[s].q = sub[s].q
  <2> DEFINE Closed(r) == [r EXCEPT !.life = "closed"]
  <2>1. ASSUME NEW r \in Subscription
        PROVE  /\ Closed(r) \in Subscription /\ Closed(r).life = "closed"
               /\ Closed(r).gen = r.gen /\ Closed(r).q = r.q
    BY DEF Subscription
  <2>2. ASSUME NEW s \in Sub, Close(s)
        PROVE  sub' = [sub EXCEPT ![s] = Closed(sub[s])] /\ subs' = subs \ {s}
    BY <2>2 DEF Close
  <2>3. ASSUME Shutdown
        PROVE  sub' = [s \in Sub |-> IF s \in subs THEN Closed(sub[s]) ELSE sub[s]]
    BY <2>3 DEF Shutdown
  <2> HIDE DEF Closed
  <2>4. CASE \E s \in Sub : Close(s)
    BY <1>1, <2>1, <2>2, <2>4
  <2>5. CASE Shutdown
    BY <1>1, <2>1, <2>3, <2>5
  <2>6. CASE IdleCallback
    BY <1>1, <2>6 DEF IdleCallback
  <2> QED
    BY <2>4, <2>5, <2>6
<1>5. TypeOK' /\ NeverStranded' /\ EncoderFollows'
  BY <1>1, <1>3, <1>4 DEF PipelineInv, TypeOK, NeverStranded, EncoderFollows
<1>6. PushCurrent'
  BY <1>1, <1>3, PushStays DEF Pipeline
<1>7. ASSUME NEW s \in Sub
      PROVE  (sub'[s].life = "open" => s \in subs') /\ sub'[s].gen <= pl'.gen
  <2>1. OpenAreAttached /\ GenerationsPast /\ sub[s].gen \in Nat /\ pl'.gen \in Nat /\ pl'.gen >= pl.gen
    BY <1>1, <1>3 DEF PipelineInv, Subscription, Pipeline
  <2> QED
    BY <1>1, <1>4, <2>1 DEF OpenAreAttached, GenerationsPast
<1>8. ASSUME NEW s \in Sub PROVE QueueDecodable(s)' /\ InStep(s)'
  <2>1. QueueDecodable(s)
    BY DEF PipelineInv
  <2>2. CASE sub'[s].life # "open"
    BY <1>1, <1>4, <2>1, <2>2 DEF QueueDecodable, InStep
  <2>3. CASE sub'[s].life = "open"
    <3>1. sub'[s] = sub[s] /\ s \in subs'
      BY <1>4, <1>7, <2>3
    <3> QED
      BY <1>1, <1>3, <3>1, UntouchedInStep
  <2> QED
    BY <2>2, <2>3
<1> QED
  BY <1>5, <1>6, <1>7, <1>8 DEF PipelineInv, OpenAreAttached, GenerationsPast
\* The encoder makes the unit that every subscription in step expects.
LEMMA EncodeInv ==
  ASSUME PipelineInv, Encode
  PROVE  PipelineInv'
<1>1. /\ TypeOK /\ PushCurrent /\ pl.running /\ push = Idle
      /\ pl \in Pipeline /\ enc \in Encoder
      /\ pl.gen \in Nat /\ enc.id \in Nat /\ enc.n \in Nat /\ enc.ask \in BOOLEAN
      /\ subs' = subs /\ sub' = sub /\ pl' = pl /\ taken' = taken
  BY DEF Encode, PipelineInv, EncoderFollows, TypeOK, Pipeline, Encoder
<1>2. enc' \in Encoder /\ enc'.on = enc.on /\ enc'.id = enc.id /\ enc'.n = enc.n + 1
  <2>1. enc' = [enc EXCEPT !.n = @ + 1, !.ask = FALSE] /\ enc.n + 1 \in Nat
    BY <1>1 DEF Encode
  <2> QED
    BY <1>1, <2>1 DEF Encoder
<1> DEFINE unit == [enc |-> enc.id, n |-> enc.n + 1, idr |-> enc.ask, gen |-> pl.gen]
<1>3. push' = [step |-> "stamped", targets |-> {}, au |-> unit]
  BY <1>1 DEF Encode
<1>4. unit \in AccessUnit
  BY <1>1 DEF AccessUnit
<1>5. TypeOK'
  BY <1>1, <1>2, <1>3, <1>4 DEF TypeOK
<1>6. PushCurrent'
  BY <1>1, <1>2, <1>3 DEF PushCurrent
<1>7. NeverStranded' /\ OpenAreAttached' /\ EncoderFollows' /\ GenerationsPast'
  BY <1>1, <1>2 DEF PipelineInv, NeverStranded, OpenAreAttached, EncoderFollows, GenerationsPast
<1>8. ASSUME NEW s \in Sub PROVE QueueDecodable(s)' /\ InStep(s)'
  <2>1. QueueDecodable(s) /\ InStep(s) /\ ~Pending(s)
    BY <1>1 DEF PipelineInv, Pending, Idle
  <2>2. QueueDecodable(s)'
    BY <1>1, <2>1 DEF QueueDecodable
  <2>3. LastUnit(s)' = LastUnit(s)
    BY <1>1 DEF LastUnit
  <2>4. Pending(s)' = (sub[s].gen = pl.gen)
    BY <1>1, <1>3 DEF Pending
  <2>5. CASE sub[s].life = "open" /\ ~sub[s].dropped /\ sub[s].gen = pl.gen
    <3>1. LastUnit(s) = [enc |-> enc.id, n |-> enc.n]
      BY <2>1, <2>5 DEF InStep
    <3>2. Follows(LastUnit(s), unit)
      BY <3>1 DEF Follows
    <3> QED
      BY <1>3, <2>2, <2>3, <2>4, <2>5, <3>2 DEF InStep
  <2>6. CASE ~(sub[s].life = "open" /\ ~sub[s].dropped /\ sub[s].gen = pl.gen)
    BY <1>1, <2>2, <2>4, <2>6 DEF InStep
  <2> QED
    BY <2>5, <2>6
<1> QED
  BY <1>5, <1>6, <1>7, <1>8 DEF PipelineInv

\* Broadcast discards the unit only for a generation that has passed, or when
\* nobody is attached.
LEMMA BroadcastInv ==
  ASSUME PipelineInv, Broadcast
  PROVE  PipelineInv'
<1>1. /\ TypeOK /\ PushCurrent /\ push.step = "stamped" /\ push.targets = {}
      /\ subs' = subs /\ sub' = sub /\ pl' = pl /\ taken' = taken /\ enc' = enc
      /\ subs \in SUBSET Sub
  BY DEF Broadcast, PipelineInv, PushCurrent, TypeOK
<1>2. NeverStranded' /\ OpenAreAttached' /\ EncoderFollows' /\ GenerationsPast'
  BY <1>1 DEF PipelineInv, NeverStranded, OpenAreAttached, EncoderFollows, GenerationsPast
<1>3. CASE push.au.gen = pl.gen /\ pl.running /\ subs # {}
  <2>1. push' = [push EXCEPT !.step = "offering", !.targets = subs]
    BY <1>3 DEF Broadcast
  <2>2. push'.step = "offering" /\ push'.targets = subs /\ push'.au = push.au
    BY <1>1, <2>1 DEF TypeOK
  <2>3. TypeOK'
    BY <1>1, <2>1 DEF TypeOK
  <2>4. PushCurrent'
    BY <1>1, <2>2 DEF PushCurrent
  <2>5. ASSUME NEW s \in Sub PROVE QueueDecodable(s)' /\ InStep(s)'
    <3>1. QueueDecodable(s) /\ InStep(s) /\ (sub[s].life = "open" => s \in subs)
      BY DEF PipelineInv, OpenAreAttached
    <3>2. QueueDecodable(s)' /\ LastUnit(s)' = LastUnit(s)
      BY <1>1, <3>1 DEF QueueDecodable, LastUnit
    <3>3. s \in subs => Pending(s)' = Pending(s)
      BY <1>1, <2>2 DEF Pending
    <3> QED
      BY <1>1, <2>2, <3>1, <3>2, <3>3 DEF InStep
  <2> QED
    BY <1>2, <2>3, <2>4, <2>5 DEF PipelineInv
<1>4. CASE ~(push.au.gen = pl.gen /\ pl.running /\ subs # {})
  <2>1. push' = Idle
    BY <1>4 DEF Broadcast
  <2>2. TypeOK'
    BY <1>1, <2>1 DEF TypeOK, Idle, NoAU, AccessUnit
  <2>3. PushCurrent'
    BY <1>1, <2>1 DEF TypeOK, PushCurrent, Idle, NoAU, Pipeline
  <2>4. ASSUME NEW s \in Sub PROVE QueueDecodable(s)' /\ InStep(s)'
    <3>1. QueueDecodable(s) /\ InStep(s) /\ (sub[s].life = "open" => s \in subs)
      BY DEF PipelineInv, OpenAreAttached
    <3>2. QueueDecodable(s)' /\ LastUnit(s)' = LastUnit(s)
      BY <1>1, <3>1 DEF QueueDecodable, LastUnit
    <3>3. ~Pending(s)'
      BY <2>1 DEF Pending, Idle
    <3>4. sub[s].life = "open" /\ sub[s].gen = pl.gen => ~Pending(s)
      BY <1>1, <1>4, <3>1 DEF Pending, PushCurrent
    <3> QED
      BY <1>1, <3>1, <3>2, <3>3, <3>4 DEF InStep
  <2> QED
    BY <1>2, <2>2, <2>3, <2>4 DEF PipelineInv
<1> QED
  BY <1>3, <1>4

\* ForceResync: the subscription waits for an IDR and keeps what it holds.
LEMMA ForceResyncInv ==
  ASSUME PipelineInv, NEW s \in Sub, ForceResync(s)
  PROVE  PipelineInv'
<1>1. /\ TypeOK /\ sub \in [Sub -> Subscription] /\ pl \in Pipeline /\ pl.gen \in Nat
      /\ subs' = subs /\ push' = push /\ pl' = pl /\ taken' = taken /\ enc' = enc
      /\ sub' = [sub EXCEPT ![s] = [sub[s] EXCEPT !.dropped = TRUE]]
  BY DEF ForceResync, PipelineInv, TypeOK, Pipeline
<1>2. /\ [sub[s] EXCEPT !.dropped = TRUE] \in Subscription
      /\ sub'[s].life = sub[s].life /\ sub'[s].gen = sub[s].gen /\ sub'[s].q = sub[s].q
      /\ sub'[s].dropped
  BY <1>1 DEF Subscription
<1>3. /\ sub' \in [Sub -> Subscription]
      /\ \A r \in Sub \ {s} : sub'[r] = sub[r]
  BY <1>1, <1>2
<1>4. TypeOK'
  BY <1>1, <1>3 DEF TypeOK
<1>5. NeverStranded' /\ EncoderFollows' /\ PushCurrent'
  BY <1>1, PushStays DEF PipelineInv, NeverStranded, EncoderFollows
<1>6. OpenAreAttached' /\ GenerationsPast'
  BY <1>1, <1>2, <1>3 DEF PipelineInv, OpenAreAttached, GenerationsPast
<1>7. QueueDecodable(s)' /\ InStep(s)'
  BY <1>1, <1>2 DEF PipelineInv, QueueDecodable, InStep
<1>8. ASSUME NEW r \in Sub \ {s} PROVE QueueDecodable(r)' /\ InStep(r)'
  BY <1>1, <1>3, UntouchedInStep
<1> QED
  BY <1>4, <1>5, <1>6, <1>7, <1>8 DEF PipelineInv
\* A subscription takes the unit it expects at the end of its queue, or drops it
\* and waits.
LEMMA OfferInv ==
  ASSUME PipelineInv, AttachedBegun, NEW s \in Sub, Offer(s)
  PROVE  PipelineInv'
<1> DEFINE au == push.au
<1> DEFINE r == sub[s]
<1>1. /\ TypeOK /\ PushCurrent /\ s \in push.targets /\ push.step = "offering"
      /\ sub \in [Sub -> Subscription] /\ pl \in Pipeline /\ pl.gen \in Nat
      /\ r \in Subscription /\ au \in AccessUnit /\ r.q \in Seq(AccessUnit)
      /\ subs' = subs /\ pl' = pl /\ taken' = taken /\ enc' = enc
      /\ sub' = [sub EXCEPT ![s] = Offered(r, au)]
      /\ push' = IF push.targets = {s} THEN Idle ELSE [push EXCEPT !.targets = @ \ {s}]
  BY DEF Offer, PipelineInv, PushCurrent, TypeOK, Pipeline, Subscription, Idle
<1> DEFINE accepts == ~(r.life = "closed" \/ au.gen # r.gen \/ (r.dropped /\ ~au.idr))
                      /\ Len(r.q) < SubQueueCap
<1>2. \/ /\ accepts
         /\ Offered(r, au) \in Subscription
         /\ Offered(r, au).life = r.life /\ Offered(r, au).gen = r.gen
         /\ Offered(r, au).q = Append(r.q, au)
      \/ Offered(r, au) = r /\ (r.life = "closed" \/ au.gen # r.gen \/ r.dropped)
      \/ /\ Offered(r, au) \in Subscription
         /\ Offered(r, au).life = r.life /\ Offered(r, au).gen = r.gen
         /\ Offered(r, au).q = r.q /\ Offered(r, au).dropped
  <2>1. Append(r.q, au) \in Seq(AccessUnit)
    BY <1>1
  <2>2. CASE accepts
    <3>1. Offered(r, au) = [r EXCEPT !.q = Append(r.q, au), !.dropped = FALSE]
      BY <2>2 DEF Offered
    <3>2. \A q \in Seq(AccessUnit) : [r EXCEPT !.q = q, !.dropped = FALSE] \in Subscription
      BY <1>1 DEF Subscription
    <3>3. /\ Offered(r, au) \in Subscription
          /\ Offered(r, au).life = r.life /\ Offered(r, au).gen = r.gen
          /\ Offered(r, au).q = Append(r.q, au)
      BY <1>1, <2>1, <3>1, <3>2 DEF Subscription
    <3> QED
      BY <2>2, <3>3
  <2>3. CASE r.life = "closed" \/ au.gen # r.gen \/ (r.dropped /\ ~au.idr)
    BY <2>3 DEF Offered
  <2>4. CASE /\ ~(r.life = "closed" \/ au.gen # r.gen \/ (r.dropped /\ ~au.idr))
             /\ ~(Len(r.q) < SubQueueCap)
    <3>1. Offered(r, au) = [r EXCEPT !.dropped = TRUE]
      BY <2>4 DEF Offered
    <3> QED
      BY <1>1, <3>1 DEF Subscription
  <2> QED
    BY <2>2, <2>3, <2>4
<1>3. /\ sub' \in [Sub -> Subscription] /\ sub'[s] = Offered(r, au)
      /\ sub'[s].life = r.life /\ sub'[s].gen = r.gen
      /\ \A t \in Sub \ {s} : sub'[t] = sub[t]
  BY <1>1, <1>2
<1>4. /\ push' \in [step : {"idle", "stamped", "offering"}, au : AccessUnit, targets : SUBSET Sub]
      /\ push'.targets = push.targets \ {s} /\ push'.step # "stamped"
      /\ push'.targets # {} => push'.step = "offering" /\ push'.au = au
      /\ push' = Idle \/ (push'.step = "offering" /\ push'.au = au)
  BY <1>1 DEF TypeOK, Idle, NoAU, AccessUnit
<1>5. TypeOK'
  BY <1>1, <1>3, <1>4 DEF TypeOK
<1>6. NeverStranded' /\ EncoderFollows' /\ OpenAreAttached' /\ GenerationsPast'
  BY <1>1, <1>3 DEF PipelineInv, NeverStranded, EncoderFollows, OpenAreAttached, GenerationsPast
<1>7. PushCurrent'
  BY <1>1, <1>4 DEF PushCurrent, Idle, NoAU
\* The others wait for the unit as before, or never did.
<1>8. ASSUME NEW t \in Sub \ {s} PROVE QueueDecodable(t)' /\ InStep(t)'
  <2>1. QueueDecodable(t) /\ InStep(t)
    BY DEF PipelineInv
  <2>2. QueueDecodable(t)' /\ LastUnit(t)' = LastUnit(t)
    BY <1>1, <1>3, <2>1 DEF QueueDecodable, LastUnit
  <2>3. Pending(t)' = Pending(t) /\ (Pending(t) => push'.au = push.au)
    BY <1>1, <1>3, <1>4 DEF Pending
  <2> QED
    BY <1>1, <1>3, <2>1, <2>2, <2>3 DEF InStep
<1>9. ~Pending(s)'
  BY <1>1, <1>4 DEF Pending
\* The one that is offered the unit expected it, or it is an IDR.
<1>10. ASSUME accepts, Offered(r, au).q = Append(r.q, au)
       PROVE  QueueDecodable(s)' /\ InStep(s)'
  <2>1. QueueDecodable(s) /\ InStep(s)
    BY DEF PipelineInv
  <2>2. au.gen = r.gen /\ r.life = "open" /\ (r.dropped => au.idr)
    BY <1>1, <1>10 DEF Subscription, AttachedBegun
  <2>3. LastUnit(s)' = Name(au)
    BY <1>1, <1>3, <1>10 DEF LastUnit
  <2>4. Follows(LastUnit(s), au)
    BY <1>1, <2>1, <2>2 DEF InStep, Pending, Follows
  <2>5. InStep(s)'
    <3>1. r.gen = pl.gen => au.enc = enc.id /\ au.n = enc.n
      BY <1>1, <2>2 DEF PushCurrent
    <3> QED
      BY <1>1, <1>3, <1>9, <2>3, <3>1 DEF InStep, Name
  <2>6. QueueDecodable(s)'
    <3> DEFINE q == r.q
    <3>1. /\ \A i \in 1..Len(q) : q[i].gen = r.gen
          /\ q # <<>> => Follows(taken[s], q[1])
          /\ \A i \in 2..Len(q) : Follows(q[i - 1], q[i])
      BY <2>1 DEF QueueDecodable
    <3>2. sub'[s].q = Append(q, au) /\ sub'[s].gen = r.gen /\ taken'[s] = taken[s]
      BY <1>1, <1>3, <1>10
    <3>3. q = <<>> => Follows(taken[s], au)
      BY <2>4 DEF LastUnit
    <3>4. q # <<>> => Follows(q[Len(q)], au)
      BY <2>4 DEF LastUnit, Follows, Name
    <3>5. q \in Seq(AccessUnit) /\ au \in AccessUnit
      BY <1>1
    <3> HIDE DEF q, au, r
    <3>6. /\ \A i \in 1..Len(Append(q, au)) : Append(q, au)[i].gen = r.gen
          /\ Follows(taken[s], Append(q, au)[1])
          /\ \A i \in 2..Len(Append(q, au)) : Follows(Append(q, au)[i - 1], Append(q, au)[i])
      BY <2>2, <3>1, <3>3, <3>4, <3>5
    <3> QED
      BY <3>2, <3>6 DEF QueueDecodable
  <2> QED
    BY <2>5, <2>6
\* Otherwise it keeps its queue, and waits if it could have expected the unit.
<1>11. ASSUME ~(accepts /\ Offered(r, au).q = Append(r.q, au))
       PROVE  QueueDecodable(s)' /\ InStep(s)'
  <2>1. QueueDecodable(s) /\ InStep(s)
    BY DEF PipelineInv
  <2>2. sub'[s].q = r.q /\ (sub'[s] = r \/ sub'[s].dropped)
        /\ (r.life = "closed" \/ au.gen # r.gen \/ sub'[s].dropped)
    BY <1>2, <1>3, <1>11
  <2>3. QueueDecodable(s)'
    BY <1>1, <1>3, <2>1, <2>2 DEF QueueDecodable
  <2>4. LastUnit(s)' = LastUnit(s)
    BY <1>1, <2>2 DEF LastUnit
  <2>5. InStep(s)'
    BY <1>1, <1>3, <1>9, <2>1, <2>2, <2>4 DEF InStep, Pending
  <2> QED
    BY <2>3, <2>5
<1> QED
  BY <1>5, <1>6, <1>7, <1>8, <1>10, <1>11 DEF PipelineInv

\* What a queue holds when its first element is gone.
LEMMA TailIs ==
  ASSUME NEW S, NEW q \in Seq(S), q # <<>>
  PROVE  /\ Head(q) = q[1] /\ Head(q) \in S
         /\ Tail(q) \in Seq(S)
         /\ Len(q) \in Nat /\ Len(Tail(q)) = Len(q) - 1
         /\ \A i \in 1..Len(Tail(q)) : Tail(q)[i] = q[i + 1]
         /\ Tail(q) = <<>> => Len(q) = 1
         /\ Tail(q) # <<>> => Len(Tail(q)) > 0
<1>1. /\ Len(q) \in Nat /\ Len(q) # 0 /\ Tail(q) \in Seq(S)
      /\ Len(Tail(q)) = Len(q) - 1
      /\ \A i \in 1..Len(Tail(q)) : Tail(q)[i] = q[i + 1]
  OBVIOUS
<1>2. Head(q) = q[1] /\ Head(q) \in S
  BY <1>1
<1>3. Tail(q) # <<>> => Len(Tail(q)) > 0
  BY <1>1
<1>4. Len(<< >>) = 0
  OBVIOUS
<1>5. ASSUME Tail(q) = << >> PROVE Len(q) = 1
  <2> DEFINE r == Tail(q)
  <2>1. r = << >> /\ Len(r) = Len(q) - 1 /\ Len(q) \in Nat
    BY <1>1, <1>5
  <2> HIDE DEF r
  <2>2. Len(r) = 0
    BY <1>4, <2>1
  <2> QED
    BY <2>1, <2>2
<1> QED
  BY <1>1, <1>2, <1>3, <1>5

\* The pump takes the first unit of the queue.
LEMMA ReceiveInv ==
  ASSUME PipelineInv, NEW s \in Sub, Receive(s)
  PROVE  PipelineInv'
<1> DEFINE q == sub[s].q
<1>1. /\ TypeOK /\ sub \in [Sub -> Subscription] /\ pl \in Pipeline /\ pl.gen \in Nat
      /\ taken \in [Sub -> [enc : Nat, n : Nat]]
      /\ subs' = subs /\ push' = push /\ pl' = pl /\ enc' = enc
      /\ q # <<>> /\ q \in Seq(AccessUnit)
      /\ taken' = [taken EXCEPT ![s] = Name(Head(q))]
      /\ sub' = [sub EXCEPT ![s] = [sub[s] EXCEPT !.q = Tail(q)]]
  BY DEF Receive, PipelineInv, TypeOK, Pipeline, Subscription
<1>2. /\ Head(q) = q[1] /\ Head(q) \in AccessUnit /\ Tail(q) \in Seq(AccessUnit)
      /\ Name(Head(q)) \in [enc : Nat, n : Nat]
  <2> HIDE DEF q
  <2>1. Head(q) = q[1] /\ Head(q) \in AccessUnit /\ Tail(q) \in Seq(AccessUnit)
    BY <1>1, TailIs
  <2> QED
    BY <2>1 DEF Name, AccessUnit
<1>3. /\ sub' \in [Sub -> Subscription]
      /\ sub'[s].life = sub[s].life /\ sub'[s].gen = sub[s].gen
      /\ sub'[s].dropped = sub[s].dropped /\ sub'[s].q = Tail(q)
  <2>1. \A t \in Seq(AccessUnit) : [sub[s] EXCEPT !.q = t] \in Subscription
    BY <1>1 DEF Subscription
  <2> QED
    BY <1>1, <1>2, <2>1 DEF Subscription
<1>4. /\ taken' \in [Sub -> [enc : Nat, n : Nat]] /\ taken'[s] = Name(q[1])
      /\ \A r \in Sub \ {s} : sub'[r] = sub[r] /\ taken'[r] = taken[r]
  BY <1>1, <1>2
<1>5. TypeOK'
  BY <1>1, <1>3, <1>4 DEF TypeOK
<1>6. NeverStranded' /\ EncoderFollows' /\ PushCurrent'
  BY <1>1, PushStays DEF PipelineInv, NeverStranded, EncoderFollows
<1>7. OpenAreAttached' /\ GenerationsPast'
  BY <1>1, <1>3, <1>4 DEF PipelineInv, OpenAreAttached, GenerationsPast
<1>8. QueueDecodable(s) /\ InStep(s)
  BY DEF PipelineInv
<1>9. QueueDecodable(s)'
  <2>1. /\ \A i \in 1..Len(q) : q[i].gen = sub[s].gen
        /\ \A i \in 2..Len(q) : Follows(q[i - 1], q[i])
    BY <1>8 DEF QueueDecodable
  <2> HIDE DEF q
  <2>2. /\ \A i \in 1..Len(Tail(q)) : Tail(q)[i].gen = sub[s].gen
        /\ Tail(q) # <<>> => Follows(q[1], Tail(q)[1])
        /\ \A i \in 2..Len(Tail(q)) : Follows(Tail(q)[i - 1], Tail(q)[i])
    <3>1. /\ Len(q) \in Nat /\ Len(Tail(q)) = Len(q) - 1
          /\ \A i \in 1..Len(Tail(q)) : Tail(q)[i] = q[i + 1]
          /\ Tail(q) # <<>> => Len(Tail(q)) > 0
      BY <1>1, TailIs
    <3>2. Tail(q) # <<>> => Follows(q[1], Tail(q)[1])
      BY <2>1, <3>1
    <3>3. ASSUME NEW i \in 2..Len(Tail(q)) PROVE Follows(Tail(q)[i - 1], Tail(q)[i])
      <4>1. /\ i + 1 \in 2..Len(q) /\ (i + 1) - 1 = i
            /\ Tail(q)[i - 1] = q[i] /\ Tail(q)[i] = q[i + 1]
        BY <3>1
      <4> QED
        BY <2>1, <4>1
    <3>4. ASSUME NEW i \in 1..Len(Tail(q)) PROVE Tail(q)[i].gen = sub[s].gen
      <4>1. i + 1 \in 1..Len(q) /\ Tail(q)[i] = q[i + 1]
        BY <3>1
      <4> QED
        BY <2>1, <4>1
    <3> QED
      BY <3>2, <3>3, <3>4, Zenon
  <2> QED
    BY <1>3, <1>4, <2>2 DEF QueueDecodable, Follows, Name
<1>10. InStep(s)'
  <2>1. LastUnit(s)' = LastUnit(s)
    <3> HIDE DEF q
    <3>1. IF Tail(q) = <<>> THEN q[Len(q)] = q[1] ELSE Tail(q)[Len(Tail(q))] = q[Len(q)]
      BY <1>1, TailIs
    <3> QED
      BY <1>1, <1>3, <1>4, <3>1, SMTT(30) DEF LastUnit, q
  <2>2. Pending(s)' = Pending(s)
    BY <1>1, <1>3 DEF Pending
  <2> QED
    BY <1>1, <1>3, <1>8, <2>1, <2>2 DEF InStep
<1>11. ASSUME NEW r \in Sub \ {s} PROVE QueueDecodable(r)' /\ InStep(r)'
  BY <1>1, <1>4, UntouchedInStep
<1> QED
  BY <1>5, <1>6, <1>7, <1>9, <1>10, <1>11 DEF PipelineInv
\* Timers that only note that time has passed.
LEMMA TimeInv ==
  ASSUME PipelineInv, UNCHANGED <<subs, sub, pl, enc, push, taken>>
  PROVE  PipelineInv'
<1>1. TypeOK' /\ NeverStranded' /\ OpenAreAttached' /\ EncoderFollows' /\ GenerationsPast'
      /\ PushCurrent'
  BY DEF PipelineInv, TypeOK, NeverStranded, OpenAreAttached, EncoderFollows, GenerationsPast,
         PushCurrent
<1>2. ASSUME NEW s \in Sub PROVE QueueDecodable(s)' /\ InStep(s)'
  BY UntouchedInStep DEF PipelineInv, TypeOK, Pipeline
<1> QED
  BY <1>1, <1>2 DEF PipelineInv

\* Every critical section of the pipeline preserves the invariant.
LEMMA StepInv == PipelineInv /\ AttachedBegun /\ [Next]_vars => PipelineInv'
<1> SUFFICES ASSUME PipelineInv, AttachedBegun, [Next]_vars PROVE PipelineInv'
  OBVIOUS
<1>1. CASE IdleElapses \/ CooldownEnds \/ UNCHANGED vars
  BY <1>1, TimeInv DEF IdleElapses, CooldownEnds, vars
<1> QED
  BY <1>1, SubscribeInv, LeaveInv, RestartInv, ReconfigureInv, RetryStartInv, KeyframeInv,
     EncodeInv, BroadcastInv, OfferInv, ReceiveInv, ForceResyncInv DEF Next

\* resetForGen does not touch the life of a subscription.
LEMMA ResetKeepsLife ==
  ASSUME NEW f \in [Sub -> Subscription], NEW attached, NEW g, ResetSubs(f, attached, g)
  PROVE  \A s \in Sub : sub'[s].life = f[s].life
BY DEF ResetSubs, ResetForGen, Subscription

\* Who is attached, or is being offered a unit, has been opened.
LEMMA BegunStep == TypeOK /\ AttachedBegun /\ [Next]_vars => AttachedBegun'
<1> SUFFICES ASSUME TypeOK, AttachedBegun, [Next]_vars PROVE AttachedBegun'
  OBVIOUS
<1>1. sub \in [Sub -> Subscription] /\ subs \in SUBSET Sub /\ push.targets \in SUBSET Sub
  BY DEF TypeOK
\* It is enough that nobody joins who has not been opened, and nobody is closed
\* into a new one.
<1>2. ASSUME \A s \in Sub : sub'[s].life = sub[s].life \/ sub'[s].life \in {"open", "closed"},
             \A s \in subs' \cup push'.targets : s \in subs \cup push.targets
                                                  \/ (s \in Sub /\ sub'[s].life = "open")
      PROVE  AttachedBegun'
  BY <1>1, <1>2 DEF AttachedBegun
<1>3. ASSUME NEW s \in Sub, NEW ok \in BOOLEAN, Subscribe(s, ok) PROVE AttachedBegun'
  <2> DEFINE F(g) == [sub EXCEPT ![s] = ResetForGen([@ EXCEPT !.life = "open"], g)]
  <2>1. \A g : /\ \A r \in Sub : F(g)[r].life = sub[r].life \/ F(g)[r].life = "open"
               /\ F(g)[s].life = "open"
    BY <1>1 DEF ResetForGen, Subscription
  <2>2. F(pl.gen) \in [Sub -> Subscription]
    <3>1. [sub[s] EXCEPT !.life = "open"] \in Subscription /\ pl.gen \in Nat
      BY <1>1 DEF Subscription, TypeOK, Pipeline
    <3> QED
      BY <1>1, <3>1, ResetForGenIs
  <2>3. \/ sub' = F(pl.gen + 1)
        \/ sub' = F(pl.gen)
        \/ ResetSubs(F(pl.gen), subs \cup {s}, pl.gen)
    BY <1>3 DEF Subscribe, SubscribeStart, SubscribeRunning, EnsureKeyframe, Ask
  <2> HIDE DEF F
  <2>4. /\ \A r \in Sub : sub'[r].life = sub[r].life \/ sub'[r].life = "open"
        /\ sub'[s].life = "open"
    BY <2>1, <2>2, <2>3, ResetKeepsLife
  <2>5. subs' = subs \cup {s} /\ push' = push
    BY <1>3 DEF Subscribe
  <2> QED
    BY <1>2, <2>4, <2>5
<1>4. ASSUME UNCHANGED <<subs, push>>, sub' = sub \/ \E g : ResetSubs(sub, subs, g)
      PROVE  AttachedBegun'
  BY <1>1, <1>2, <1>4, ResetKeepsLife
<1>5. ASSUME \/ \E ok \in BOOLEAN : Restart(ok) \/ Reconfigure(ok) \/ RetryStart(ok)
             \/ RequestKeyframe \/ DeferredKeyframe \/ IdleCallback
             \/ IdleElapses \/ CooldownEnds \/ UNCHANGED vars
      PROVE  AttachedBegun'
  BY <1>4, <1>5 DEF Restart, Reconfigure, RetryStart, RequestKeyframe, DeferredKeyframe, Ask,
     EnsureKeyframe, IdleCallback, IdleElapses, CooldownEnds, vars
<1>6. ASSUME Shutdown \/ \E s \in Sub : Close(s) PROVE AttachedBegun'
  <2>1. subs' \subseteq subs /\ push' = push
    BY <1>6 DEF Shutdown, Close
  <2>2. \A s \in Sub : sub'[s].life = sub[s].life \/ sub'[s].life \in {"open", "closed"}
    BY <1>1, <1>6 DEF Shutdown, Close, Subscription
  <2> QED
    BY <1>2, <2>1, <2>2
<1>7. ASSUME Encode \/ Broadcast PROVE AttachedBegun'
  <2>1. sub' = sub /\ subs' = subs
    BY <1>7 DEF Encode, Broadcast
  <2>2. Encode => push'.targets = {}
    BY DEF Encode, Idle
  <2>3. Broadcast => push'.targets \in {subs, {}}
    <3>1. [push EXCEPT !.step = "offering", !.targets = subs].targets = subs
      BY DEF TypeOK
    <3> QED
      BY <3>1 DEF Broadcast, Idle
  <2> QED
    BY <1>2, <1>7, <2>1, <2>2, <2>3
<1>8. ASSUME NEW s \in Sub, Offer(s) PROVE AttachedBegun'
  <2>1. sub'[s].life = sub[s].life /\ \A r \in Sub \ {s} : sub'[r] = sub[r]
    BY <1>1, <1>8 DEF Offer, Offered, Subscription
  <2>2. subs' = subs /\ push'.targets \subseteq push.targets
    BY <1>8 DEF Offer, Idle, TypeOK
  <2> QED
    BY <1>2, <2>1, <2>2
<1>9. ASSUME NEW s \in Sub, Receive(s) \/ ForceResync(s) PROVE AttachedBegun'
  <2>1. sub'[s].life = sub[s].life /\ \A r \in Sub \ {s} : sub'[r] = sub[r]
    BY <1>1, <1>9 DEF Receive, ForceResync, Subscription
  <2>2. subs' = subs /\ push' = push
    BY <1>9 DEF Receive, ForceResync
  <2> QED
    BY <1>2, <2>1, <2>2
<1> QED
  BY <1>3, <1>5, <1>6, <1>7, <1>8, <1>9 DEF Next

\* The pipeline keeps both in every run.
THEOREM PipelineInvariant == Spec => [](PipelineInv /\ AttachedBegun)
<1>1. Init => PipelineInv /\ AttachedBegun
  BY InitInv DEF Init, AttachedBegun, Idle
<1>2. PipelineInv /\ AttachedBegun /\ [Next]_vars => (PipelineInv /\ AttachedBegun)'
  BY StepInv, BegunStep DEF PipelineInv
<1> QED
  BY <1>1, <1>2, PTL DEF Spec

\* No subscription is left without an encoder or a retry of its start, in any run.
THEOREM SubscribersNeverStranded == Spec => []NeverStranded
<1>1. PipelineInv => NeverStranded
  BY DEF PipelineInv
<1> QED
  BY <1>1, PipelineInvariant, PTL

\* What waits for a pump can be decoded, in every run.
THEOREM QueuesDecodable == Spec => []Decodable
<1>1. PipelineInv => Decodable
  BY DEF PipelineInv, Decodable
<1> QED
  BY <1>1, PipelineInvariant, PTL

----------------------------------------------------------------------------
(* The capture of a tab *)

\* The tab is captured, and nothing was asked of the extension.
LEMMA CaptureInitInv == CaptureInit => CaptureInv
<1> SUFFICES ASSUME CaptureInit PROVE CaptureInv
  OBVIOUS
<1>1. CaptureTypeOK
  BY DEF CaptureInit, CaptureTypeOK, Extensions
<1>2. AcquiringAnnounced /\ ChannelOpen /\ FailureSeen
  BY DEF CaptureInit, AcquiringAnnounced, ChannelOpen, FailureSeen
<1>3. MediaAsReported
  BY DEF CaptureInit, MediaAsReported
<1> QED
  BY <1>1, <1>2, <1>3 DEF CaptureInv

\* What the extension appends to the audio bridge is its last report.
LEMMA ReportAppended ==
  ASSUME CaptureInv, NEW m \in {"active", "inactive", "error"}, audioSrv' = Append(audioSrv, m)
  PROVE  LastReport' = m /\ audioSrv' # <<>> /\ audioSrv' \in Seq({"active", "inactive", "error"})
<1>1. audioSrv \in Seq({"active", "inactive", "error"})
  BY DEF CaptureInv, CaptureTypeOK
<1>2. /\ audioSrv' \in Seq({"active", "inactive", "error"})
      /\ Len(audioSrv') = Len(audioSrv) + 1 /\ audioSrv'[Len(audioSrv) + 1] = m
  BY <1>1
<1>3. audioSrv' # <<>>
  BY <1>1, <1>2
<1> QED
  BY <1>2, <1>3 DEF LastReport

\* Reading a report does not change which one is the last.
LEMMA ReportRead ==
  ASSUME CaptureInv, audioSrv # <<>>, audioSrv' = Tail(audioSrv), report' = Head(audioSrv)
  PROVE  /\ LastReport' = LastReport /\ audioSrv' \in Seq({"active", "inactive", "error"})
         /\ report' \in {"active", "inactive", "error"}
<1>1. audioSrv \in Seq({"active", "inactive", "error"}) /\ audioSrv # <<>>
  BY DEF CaptureInv, CaptureTypeOK
<1>2. Len(audioSrv) \in Nat /\ Len(audioSrv) >= 1 /\ Head(audioSrv) = audioSrv[1]
      /\ Tail(audioSrv) \in Seq({"active", "inactive", "error"})
      /\ Len(Tail(audioSrv)) = Len(audioSrv) - 1
      /\ audioSrv[1] \in {"active", "inactive", "error"}
  BY <1>1
<1>3. CASE Len(audioSrv) = 1
  <2>1. Tail(audioSrv) = <<>>
    BY <1>2, <1>3
  <2> QED
    BY <1>1, <1>2, <1>3, <2>1 DEF LastReport
<1>4. CASE Len(audioSrv) > 1
  <2>1. Tail(audioSrv)[Len(audioSrv) - 1] = audioSrv[Len(audioSrv)] /\ Tail(audioSrv) # <<>>
    BY <1>1, <1>2, <1>4, TailIs
  <2> QED
    BY <1>1, <1>2, <1>4, <2>1 DEF LastReport
<1> QED
  BY <1>2, <1>3, <1>4

\* The extension stays one when it stops or starts its encoder, or releases the tab.
LEMMA ExtensionTypes ==
  ASSUME NEW x \in Extensions
  PROVE  Stopped(x) \in Extensions /\ Starting(x) \in Extensions /\ Released(x) \in Extensions
<1>1. PICK n \in Nat : n = IF x.encoder = "starting" THEN x.superseded + 1 ELSE x.superseded
  BY DEF Extensions
<1>2. PICK y \in Extensions : y = [x EXCEPT !.encoder = "off", !.superseded = n]
  BY DEF Extensions
<1>3. Stopped(x) = y
  BY <1>1, <1>2 DEF Stopped, Extensions
<1>4. Starting(x) \in Extensions
  BY <1>3 DEF Starting, Extensions
<1>5. Released(x) \in Extensions
  BY <1>3 DEF Released, Extensions
<1> QED
  BY <1>3, <1>4, <1>5

\* The extension's steps: the backend has seen nothing of them yet.
LEMMA ExtensionInv ==
  ASSUME CaptureInv,
         \/ ExtReceive \/ ExtRestart \/ PrepareCapture \/ CaptureTab \/ Acquired \/ AcquireFails
         \/ \E ok \in BOOLEAN : EncoderStarts(ok)
         \/ \E silent \in BOOLEAN : SupersededEnds(silent)
         \/ EncoderBreaks \/ EncodeFrame
  PROVE  CaptureInv'
<1> USE DEF CaptureInv
<1>1. UNCHANGED <<pc, cap, captured, report>>
  BY DEF ExtReceive, ExtRestart, PrepareCapture, CaptureTab, Acquired, AcquireFails, EncoderStarts,
         SupersededEnds, EncoderBreaks, EncodeFrame, backend
<1>2. ext' \in Extensions
  <2>1. ext \in Extensions
    BY DEF CaptureTypeOK
  <2>2. CASE ExtReceive
    <3>1. PICK x \in Extensions : x = IF Head(toExt) = "stop-video" THEN Stopped(ext)
                                      ELSE IF ext.stream = "video" THEN Starting(ext) ELSE ext
      BY <2>1, ExtensionTypes
    <3>2. ext' = x \/ ext' = [x EXCEPT !.config = TRUE]
      BY <2>2, <3>1 DEF ExtReceive
    <3> QED
      BY <3>2 DEF Extensions
  <2>3. CASE ExtRestart \/ PrepareCapture \/ CaptureTab
    <3>1. PICK x \in Extensions : x = Released(ext)
      BY <2>1, ExtensionTypes
    <3>2. \/ ext' = x
          \/ \E a \in {"prepared", "video", "audio"} : ext' = [x EXCEPT !.acquire = a]
      BY <2>3, <3>1 DEF ExtRestart, PrepareCapture, CaptureTab
    <3> QED
      BY <3>2 DEF Extensions
  <2>4. CASE Acquired
    <3>1. PICK x : x = [ext EXCEPT !.stream = ext.acquire, !.acquire = "idle"]
      OBVIOUS
    <3>2. x \in Extensions
      BY <2>1, <2>4, <3>1 DEF Acquired, Extensions
    <3>3. ext' = x \/ ext' = Starting(x)
      BY <2>4, <3>1 DEF Acquired
    <3> QED
      BY <3>2, <3>3, ExtensionTypes
  <2>5. CASE AcquireFails \/ EncoderBreaks \/ EncodeFrame \/ \E ok \in BOOLEAN : EncoderStarts(ok)
    BY <2>1, <2>5 DEF AcquireFails, EncoderBreaks, EncodeFrame, EncoderStarts, Extensions
  <2>6. CASE \E silent \in BOOLEAN : SupersededEnds(silent)
    BY <2>1, <2>6 DEF SupersededEnds, Extensions
  <2> QED
    BY <2>2, <2>3, <2>4, <2>5, <2>6
<1>3. \/ /\ audioSrv' = audioSrv /\ clicks' = clicks
         /\ ext'.acquire # "idle" => ext.acquire # "idle"
         /\ ext.acquire = "idle" => ext'.acquire = "idle"
      \/ \E m \in {"active", "inactive", "error"} :
            /\ audioSrv' = Append(audioSrv, m) /\ clicks' \in Nat
            /\ ext'.acquire # "idle" => m = "inactive"
  <2>1. CASE ExtReceive \/ CaptureTab \/ EncoderBreaks \/ EncodeFrame
    BY <2>1 DEF ExtReceive, CaptureTab, EncoderBreaks, EncodeFrame, CaptureTypeOK, Extensions, Stopped, Starting,
                Released
  <2>2. CASE ExtRestart \/ PrepareCapture
    BY <2>2 DEF ExtRestart, PrepareCapture, CaptureTypeOK, Extensions
  <2>3. CASE Acquired \/ AcquireFails
    BY <2>3 DEF Acquired, AcquireFails, CaptureTypeOK, Extensions, Stopped, Starting
  <2>4. CASE (\E ok \in BOOLEAN : EncoderStarts(ok)) \/ \E silent \in BOOLEAN : SupersededEnds(silent)
    BY <2>4 DEF EncoderStarts, SupersededEnds, CaptureTypeOK, Extensions
  <2> QED
    BY <2>1, <2>2, <2>3, <2>4
<1>4. CASE /\ audioSrv' = audioSrv /\ clicks' = clicks
           /\ ext'.acquire # "idle" => ext.acquire # "idle"
           /\ ext.acquire = "idle" => ext'.acquire = "idle"
  <2>1. AcquiringAnnounced'
    BY <1>1, <1>4 DEF AcquiringAnnounced, LastReport
  <2>2. FailureSeen' /\ ChannelOpen' /\ MediaAsReported'
    BY <1>1, <1>4 DEF FailureSeen, ChannelOpen, MediaAsReported
  <2>3. CaptureTypeOK'
    BY <1>1, <1>2, <1>4 DEF CaptureTypeOK
  <2> QED
    BY <2>1, <2>2, <2>3
<1>5. ASSUME NEW m \in {"active", "inactive", "error"}, audioSrv' = Append(audioSrv, m), clicks' \in Nat,
             ext'.acquire # "idle" => m = "inactive"
      PROVE  CaptureInv'
  <2>1. LastReport' = m /\ audioSrv' # <<>> /\ audioSrv' \in Seq({"active", "inactive", "error"})
    BY <1>5, ReportAppended
  <2>2. AcquiringAnnounced' /\ FailureSeen' /\ ChannelOpen' /\ MediaAsReported'
    BY <1>1, <1>5, <2>1 DEF AcquiringAnnounced, FailureSeen, ChannelOpen, MediaAsReported
  <2>3. CaptureTypeOK'
    BY <1>1, <1>2, <1>5, <2>1 DEF CaptureTypeOK
  <2> QED
    BY <2>2, <2>3
<1> QED
  BY <1>3, <1>4, <1>5

\* The pipeline's steps, which stop the encoder, start it or wait for it.
LEMMA StartInv ==
  ASSUME CaptureInv,
         \/ Begin \/ BeginCycle \/ Leave \/ Join \/ Park \/ StopCapture \/ ReleaseTimeout \/ SendVideoConfig
         \/ \E changed \in BOOLEAN : StartVideo(changed)
         \/ TriggerFails \/ WaitCapture \/ WaitReady \/ WaitTimeout \/ Triggered
  PROVE  CaptureInv'
<1> USE DEF CaptureInv
<1>1. UNCHANGED <<audioSrv, clicks, ext, report>>
  BY DEF Begin, BeginCycle, Leave, Join, Park, StopCapture, ReleaseTimeout, SendVideoConfig, StartVideo,
         TriggerFails, WaitCapture, WaitReady, WaitTimeout, Triggered, extVars
<1>2. AcquiringAnnounced'
  BY <1>1 DEF AcquiringAnnounced, LastReport
\* The pipeline's mutex is free afterwards, or StartVideo has yet to begin.
<1>3. ASSUME pc' \in {"idle", "start"}, captured' \in {captured, "none"}, cap'.media = cap.media,
             cap' \in [active : BOOLEAN, running : BOOLEAN, media : BOOLEAN, trigger : BOOLEAN]
      PROVE  CaptureInv'
  <2>1. ChannelOpen' /\ FailureSeen' /\ MediaAsReported'
    BY <1>1, <1>3 DEF ChannelOpen, FailureSeen, MediaAsReported
  <2>2. CaptureTypeOK'
    BY <1>1, <1>3 DEF CaptureTypeOK
  <2> QED
    BY <1>2, <2>1, <2>2
<1>4. cap \in [active : BOOLEAN, running : BOOLEAN, media : BOOLEAN, trigger : BOOLEAN]
  BY DEF CaptureTypeOK
<1>5. ASSUME StopVideo
      PROVE  /\ cap'.media = cap.media
             /\ cap' \in [active : BOOLEAN, running : BOOLEAN, media : BOOLEAN, trigger : BOOLEAN]
  BY <1>4, <1>5 DEF StopVideo
<1>6. ASSUME NEW ok, Return(ok)
      PROVE  CaptureInv'
  <2>1. pc' = "idle" /\ captured' = "none" /\ (cap' = cap \/ StopVideo)
    BY <1>6 DEF Return
  <2> QED
    BY <1>3, <1>4, <1>5, <2>1
<1>7. CASE Begin \/ Leave \/ Join
  BY <1>3, <1>4, <1>7 DEF Begin, Leave, Join
<1>8. CASE BeginCycle \/ Park
  BY <1>3, <1>5, <1>8 DEF BeginCycle, Park
<1>9. CASE ReleaseTimeout \/ TriggerFails \/ WaitReady \/ WaitTimeout
  BY <1>6, <1>9 DEF ReleaseTimeout, TriggerFails, WaitReady, WaitTimeout
<1>10. ASSUME NEW changed \in BOOLEAN, StartVideo(changed)
       PROVE  CaptureInv'
  <2>1. CASE cap.running
    <3>1. cap' = [cap EXCEPT !.active = TRUE] /\ pc' = "idle" /\ captured' = captured
      BY <1>10, <2>1 DEF StartVideo
    <3> QED
      BY <1>3, <1>4, <3>1
  <2>2. CASE ~cap.running
    <3>1. /\ cap' = [cap EXCEPT !.active = TRUE, !.trigger = ~cap.media \/ changed]
          /\ captured' = "empty"
          /\ pc' = IF cap.media /\ changed THEN "restart" ELSE "configure"
      BY <1>10, <2>2 DEF StartVideo
    <3>2. /\ cap' \in [active : BOOLEAN, running : BOOLEAN, media : BOOLEAN, trigger : BOOLEAN]
          /\ cap'.media = cap.media /\ (cap'.trigger <=> ~cap.media \/ changed)
      BY <1>4, <3>1
    <3>3. ChannelOpen' /\ FailureSeen' /\ MediaAsReported'
      BY <1>1, <3>1, <3>2 DEF ChannelOpen, FailureSeen, MediaAsReported
    <3>4. CaptureTypeOK'
      BY <1>1, <3>1, <3>2 DEF CaptureTypeOK
    <3> QED
      BY <1>2, <3>3, <3>4
  <2> QED
    BY <2>1, <2>2
<1>11. CASE StopCapture \/ SendVideoConfig
  <2>1. /\ UNCHANGED <<cap, captured>>
        /\ \/ pc = "restart" /\ pc' \in {"releasing", "configure"}
           \/ pc = "configure" /\ pc' = IF cap.trigger THEN "trigger" ELSE "wait"
    BY <1>11 DEF StopCapture, SendVideoConfig
  <2>2. ChannelOpen' /\ FailureSeen' /\ MediaAsReported'
    BY <1>1, <2>1 DEF ChannelOpen, FailureSeen, MediaAsReported
  <2>3. CaptureTypeOK'
    BY <1>1, <2>1 DEF CaptureTypeOK
  <2> QED
    BY <1>2, <2>2, <2>3
\* A good report is taken out of the channel: it was the last.
<1>12. CASE Triggered \/ (WaitCapture /\ captured = "ok")
  <2>1. captured = "ok" /\ captured' = "empty" /\ pc' = "wait" /\ cap' = cap
    BY <1>12 DEF Triggered, WaitCapture
  <2>2. ChannelOpen' /\ FailureSeen' /\ MediaAsReported'
    BY <1>1, <2>1 DEF ChannelOpen, FailureSeen, MediaAsReported
  <2>3. CaptureTypeOK'
    BY <1>1, <2>1 DEF CaptureTypeOK
  <2> QED
    BY <1>2, <2>2, <2>3
<1>13. CASE WaitCapture /\ captured # "ok"
  BY <1>6, <1>13 DEF WaitCapture
<1> QED
  BY <1>7, <1>8, <1>9, <1>10, <1>11, <1>12, <1>13

\* Actions that are triggered, the first time, again or for another tab.
LEMMA ClickInv ==
  ASSUME CaptureInv, Trigger \/ TriggerAgain \/ WaitRetry \/ SwitchActive
  PROVE  CaptureInv'
<1> USE DEF CaptureInv
<1>1. /\ UNCHANGED <<audioSrv, ext, report, cap>> /\ clicks' = clicks + 1
      /\ \/ pc = "trigger" /\ pc' = "triggered" /\ captured' = captured
         \/ pc = "triggered" /\ pc' = "wait" /\ captured' = "empty"
         \/ pc' = pc /\ captured' = captured
  BY DEF Trigger, TriggerAgain, WaitRetry, SwitchActive, Click
<1>2. AcquiringAnnounced'
  BY <1>1 DEF AcquiringAnnounced, LastReport
<1>3. clicks' \in Nat /\ clicks' > 0
  BY <1>1 DEF CaptureTypeOK
<1>4. report = "error" /\ audioSrv = <<>> => ext.acquire = "idle"
  BY DEF AcquiringAnnounced, LastReport
<1>5. ChannelOpen' /\ FailureSeen' /\ MediaAsReported'
  BY <1>1, <1>3, <1>4 DEF ChannelOpen, FailureSeen, MediaAsReported
<1>6. CaptureTypeOK'
  BY <1>1, <1>3 DEF CaptureTypeOK
<1> QED
  BY <1>2, <1>5, <1>6

\* The bridges' read loops.
LEMMA ReadersInv ==
  ASSUME CaptureInv, ReadFrame \/ Push \/ ReadVideo \/ ReadAudio
  PROVE  CaptureInv'
<1> USE DEF CaptureInv
<1>0. cap \in [active : BOOLEAN, running : BOOLEAN, media : BOOLEAN, trigger : BOOLEAN]
  BY DEF CaptureTypeOK
<1>1. CASE ReadFrame \/ Push \/ ReadVideo
  <2>1. UNCHANGED <<audioSrv, clicks, ext, report, pc, captured>>
    BY <1>1 DEF ReadFrame, Push, ReadVideo, extVars
  <2>2. /\ cap' \in [active : BOOLEAN, running : BOOLEAN, media : BOOLEAN, trigger : BOOLEAN]
        /\ cap'.media = cap.media /\ cap'.trigger = cap.trigger
    <3>1. CASE ReadFrame \/ Push
      BY <1>0, <3>1 DEF ReadFrame, Push
    <3>2. CASE ReadVideo
      <4>1. PICK b \in BOOLEAN : b = (cap.running \/ Head(toSrv) = "video-active")
        BY Zenon
      <4>2. cap' = [cap EXCEPT !.running = b]
        BY <3>2, <4>1, Zenon DEF ReadVideo
      <4> QED
        BY <1>0, <4>2
    <3> QED
      BY <1>1, <3>1, <3>2
  <2>3. ChannelOpen' /\ FailureSeen' /\ MediaAsReported' /\ AcquiringAnnounced'
    BY <2>1, <2>2 DEF ChannelOpen, FailureSeen, MediaAsReported, AcquiringAnnounced, LastReport
  <2>4. CaptureTypeOK'
    BY <2>1, <2>2 DEF CaptureTypeOK
  <2> QED
    BY <2>3, <2>4
<1>2. CASE ReadAudio
  <2>1. /\ audioSrv # <<>> /\ audioSrv' = Tail(audioSrv) /\ report' = Head(audioSrv)
        /\ UNCHANGED <<clicks, ext>>
    BY <1>2 DEF ReadAudio
  <2>2. /\ LastReport' = LastReport /\ audioSrv' \in Seq({"active", "inactive", "error"})
        /\ report' \in {"active", "inactive", "error"}
    BY <2>1, ReportRead
  <2>3. AcquiringAnnounced'
    BY <2>1, <2>2 DEF AcquiringAnnounced
  <2>4. /\ cap' \in [active : BOOLEAN, running : BOOLEAN, media : BOOLEAN, trigger : BOOLEAN]
        /\ (cap'.media <=> report' = "active") /\ cap'.trigger = cap.trigger
    <3>1. \/ report' = "active" /\ cap' = [cap EXCEPT !.media = TRUE]
          \/ report' = "inactive" /\ cap' = [cap EXCEPT !.media = FALSE]
          \/ report' = "error" /\ cap' = [cap EXCEPT !.media = FALSE, !.running = FALSE]
      BY <1>2 DEF ReadAudio
    <3> QED
      BY <1>0, <3>1
  <2>5. /\ pc' = IF pc = "releasing" /\ report' = "inactive" THEN "configure" ELSE pc
        /\ report' = "error" => captured' = IF captured = "none" THEN "none" ELSE "err"
        /\ report' # "error" => captured' \in {captured, OfferReady(captured, "ok")}
    BY <1>2 DEF ReadAudio, Signal
  <2>6. MediaAsReported'
    BY <2>4 DEF MediaAsReported
  <2>7. ChannelOpen'
    BY <2>4, <2>5 DEF ChannelOpen, OfferReady
  <2>8. FailureSeen'
    BY <2>4, <2>5 DEF FailureSeen, ChannelOpen
  <2>9. CaptureTypeOK'
    BY <2>1, <2>2, <2>4, <2>5 DEF CaptureTypeOK, OfferReady
  <2> QED
    BY <2>3, <2>6, <2>7, <2>8, <2>9
<1> QED
  BY <1>1, <1>2

\* A failure is in the channel, or something newer is on its way, in every run of starts,
\* retries, tab switches and late reports.
THEOREM CaptureInvariant == CaptureSpec => []CaptureInv
<1>1. CaptureInv /\ [CaptureNext]_captureVars => CaptureInv'
  <2> SUFFICES ASSUME CaptureInv, [CaptureNext]_captureVars PROVE CaptureInv'
    OBVIOUS
  <2>1. CASE UNCHANGED captureVars
    BY <2>1 DEF captureVars, CaptureInv, CaptureTypeOK, AcquiringAnnounced, LastReport, MediaAsReported,
                ChannelOpen, FailureSeen
  <2>2. CASE CaptureNext
    BY <2>2, StartInv, ClickInv, ReadersInv, ExtensionInv DEF CaptureNext
  <2> QED
    BY <2>1, <2>2
<1> QED
  BY <1>1, CaptureInitInv, PTL DEF CaptureSpec

\* No start runs into its timeout after the extension reported that the tab could not be
\* acquired: of all steps only WaitTimeout ends a wait with nothing to select.
THEOREM CaptureFailuresReported == CaptureSpec => CaptureFailureReported
<1>1. CaptureInv /\ [CaptureNext]_captureVars => [TimesOut => report # "error"]_captureVars
  <2> SUFFICES ASSUME CaptureInv, CaptureNext, TimesOut PROVE report # "error"
    OBVIOUS
  <2>1. pc = "wait" /\ pc' = "idle" /\ captured = "empty" /\ ready = "empty"
    BY DEF TimesOut
  <2>2. WaitTimeout
    BY <2>1
    DEF CaptureNext, Begin, BeginCycle, Leave, Join, Park, StopCapture, ReleaseTimeout, SendVideoConfig,
        StartVideo, TriggerFails, WaitCapture, WaitReady, Triggered, Trigger, TriggerAgain, WaitRetry,
        SwitchActive, ReadFrame, Push, ReadVideo, ReadAudio, ExtReceive, ExtRestart, PrepareCapture,
        CaptureTab, Acquired, AcquireFails, EncoderStarts, SupersededEnds, EncoderBreaks, EncodeFrame, backend
  <2>3. audioSrv = <<>> /\ (clicks = 0 \/ ext.acquire # "idle") /\ clicks \in Nat
    BY <2>2 DEF WaitTimeout, CaptureInv, CaptureTypeOK
  <2> QED
    BY <2>1, <2>3 DEF CaptureInv, FailureSeen
<1> QED
  BY <1>1, CaptureInvariant, PTL DEF CaptureSpec, CaptureFailureReported
=============================================================================
