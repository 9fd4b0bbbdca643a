--------------------------- MODULE VideoPipeline ---------------------------
(***************************************************************************)
(* The fan-out of encoded video (backend/internal/media/video.go): one     *)
(* tab encoder started and stopped on demand, its generations, the         *)
(* subscriptions with their bounded queues and IDR boundaries, and four    *)
(* timers: idle stop, start retry, deferred keyframe, keyframe cooldown.   *)
(*                                                                         *)
(* An operation under VideoPipeline.mu is one action.  Push is not: it     *)
(* reads the generation, broadcast reads it again and collects the         *)
(* subscriptions, and each is offered the access unit after the unlock.    *)
(* The encoder is environment (the capture extension): it starts or fails, *)
(* begins with an IDR, and produces another only when asked.               *)
(***************************************************************************)
EXTENDS Naturals, Sequences, Functions

CONSTANTS
  Sub,          \* subscriptions, each used once
  SubQueueCap,  \* subQueueCap (4)
  MaxGen,       \* bound: encoder generations
  MaxAU         \* bound: access units of one encoder

ASSUME PipelineAssumption ==
  SubQueueCap \in Nat \ {0} /\ MaxGen \in Nat /\ MaxAU \in Nat

VARIABLES
  subs,         \* VideoPipeline.subs
  sub,          \* the fields of every subscription, its queue and its life
  pl,           \* running, gen and the two timers that an identity check guards
  stopTimer,    \* idle timer: "off", "armed", or "fired" (callback waits for mu)
  cooling,      \* less than keyframeCooldown since lastKeyframeReq
  owed,         \* a keyframe was asked for and not yet passed to the encoder
  enc,          \* the encoder: its instance, frames produced, IDR asked for
  push,         \* the access unit inside Push, and who is still to be offered it
  taken         \* which access unit each pump received last

vars == <<subs, sub, pl, stopTimer, cooling, owed, enc, push, taken>>

NoAU == [enc |-> 0, n |-> 0, idr |-> FALSE, gen |-> 0]
Name(au) == [enc |-> au.enc, n |-> au.n]
Idle == [step |-> "idle", au |-> NoAU, targets |-> {}]

Init ==
  /\ subs = {}
  /\ sub = [s \in Sub |-> [life |-> "new", gen |-> 0, dropped |-> TRUE, q |-> <<>>]]
  /\ pl = [running |-> FALSE, gen |-> 0, retry |-> FALSE, keyframe |-> FALSE]
  /\ stopTimer = "off"
  /\ cooling = FALSE
  /\ owed = FALSE
  /\ enc = [on |-> FALSE, id |-> 0, n |-> 0, ask |-> FALSE]
  /\ push = Idle
  /\ taken = [s \in Sub |-> Name(NoAU)]

----------------------------------------------------------------------------
(* The Locked helpers, as functions from pipeline to pipeline *)

StopLocked(p) ==
  [p EXCEPT !.retry = FALSE, !.keyframe = FALSE, !.running = FALSE,
            !.gen = IF p.running THEN @ + 1 ELSE @]

\* Bug: a failed start is not retried.
StartLockedWithoutRetry(p, ok, attached) ==
  [p EXCEPT !.gen = @ + 1, !.running = ok, !.retry = FALSE]

\* Every attempt takes a generation; a failed one arms the retry timer.
StartLocked(p, ok, attached) ==
  [p EXCEPT !.gen = @ + 1, !.running = ok, !.retry = ~ok /\ attached # {}]

StoppedEncoder == [enc EXCEPT !.on = FALSE, !.n = 0, !.ask = FALSE]
StartedEncoder(ok) ==
  IF ok THEN [on |-> TRUE, id |-> enc.id + 1, n |-> 0, ask |-> TRUE]
        ELSE StoppedEncoder

\* resetForGen: only an IDR of generation g is accepted next.
ResetForGen(r, g) == [r EXCEPT !.gen = g, !.dropped = TRUE, !.q = <<>>]

\* The loop that empties a queue competes with the pump, which may receive any
\* of the units before the loop does.
ResetSubs(f, attached, g) ==
  /\ sub' = [s \in Sub |-> IF s \in attached THEN ResetForGen(f[s], g) ELSE f[s]]
  /\ LET Last(s) == {taken[s]} \cup
                     (IF s \in attached THEN {Name(au) : au \in Range(f[s].q)} ELSE {})
     IN  taken' \in {t \in [Sub -> UNION {Last(s) : s \in Sub}] :
                       \A s \in Sub : t[s] \in Last(s)}

\* requestKeyframeLocked: the encoder is asked, and every subscription drops
\* its dependent frames so that the IDR finds room.
Ask(f, attached) ==
  /\ enc' = [enc EXCEPT !.ask = TRUE]
  /\ cooling' = TRUE
  /\ owed' = FALSE
  /\ ResetSubs(f, attached, pl.gen)

\* Bug: a request within the cooldown arms no timer.
EnsureKeyframeDiscards(f, attached) ==
  IF cooling
    THEN /\ owed' = TRUE
         /\ sub' = f
         /\ UNCHANGED <<pl, enc, cooling, taken>>
    ELSE Ask(f, attached) /\ UNCHANGED pl

\* ensureKeyframeLocked while running: within the cooldown the request waits
\* for the deferred-keyframe timer.
EnsureKeyframe(f, attached) ==
  IF cooling
    THEN /\ pl' = [pl EXCEPT !.keyframe = TRUE]
         /\ owed' = TRUE
         /\ sub' = f
         /\ UNCHANGED <<enc, cooling, taken>>
    ELSE Ask(f, attached) /\ UNCHANGED pl

GenAvailable(k) == pl.gen + k <= MaxGen

----------------------------------------------------------------------------
(* Subscriptions *)

SubscribeStart(s, ok) ==
  /\ ~pl.running
  /\ pl' = StartLocked(pl, ok, subs \cup {s})
  /\ enc' = StartedEncoder(ok)
  /\ sub' = [sub EXCEPT ![s] = ResetForGen([@ EXCEPT !.life = "open"], pl.gen + 1)]
  /\ UNCHANGED <<cooling, owed, taken>>

SubscribeRunning(s) ==
  /\ pl.running
  /\ EnsureKeyframe(
       [sub EXCEPT ![s] = ResetForGen([@ EXCEPT !.life = "open"], pl.gen)],
       subs \cup {s})

Subscribe(s, ok) ==
  /\ sub[s].life = "new"
  /\ GenAvailable(1)
  /\ subs' = subs \cup {s}
  /\ stopTimer' = IF stopTimer = "armed" THEN "off" ELSE stopTimer
  /\ SubscribeStart(s, ok) \/ (ok /\ SubscribeRunning(s))
  /\ UNCHANGED push

\* The last subscription to leave cancels the retry and arms the idle timer.
Close(s) ==
  /\ s \in subs
  /\ subs' = subs \ {s}
  /\ sub' = [sub EXCEPT ![s].life = "closed"]
  /\ IF subs = {s}
       THEN /\ pl' = [pl EXCEPT !.retry = FALSE]
            /\ stopTimer' = IF pl.running /\ stopTimer = "off" THEN "armed" ELSE stopTimer
       ELSE UNCHANGED <<pl, stopTimer>>
  /\ UNCHANGED <<cooling, owed, enc, push, taken>>

\* The idle delay passes; the callback then takes the mutex.
IdleElapses ==
  /\ stopTimer = "armed"
  /\ stopTimer' = "fired"
  /\ UNCHANGED <<subs, sub, pl, cooling, owed, enc, push, taken>>

IdleCallback ==
  /\ stopTimer = "fired"
  /\ GenAvailable(1)
  /\ IF subs = {} /\ pl.running
       THEN /\ pl' = StopLocked(pl)
            /\ enc' = StoppedEncoder
            /\ owed' = FALSE
       ELSE UNCHANGED <<pl, enc, owed>>
  /\ stopTimer' = "off"
  /\ UNCHANGED <<subs, sub, cooling, push, taken>>

----------------------------------------------------------------------------
(* Encoder control *)

\* Stop and start as one critical section: a new encoder generation.
Cycle(ok) ==
  /\ pl' = StartLocked(StopLocked(pl), ok, subs)
  /\ enc' = StartedEncoder(ok)
  /\ owed' = FALSE

\* Restart, the recovery that a client asks for.  Without subscriptions the
\* encoder stays stopped.
Restart(ok) ==
  /\ GenAvailable(2)
  /\ stopTimer' = IF stopTimer = "armed" THEN "off" ELSE stopTimer
  /\ IF subs # {}
       THEN Cycle(ok)
       ELSE /\ pl' = StopLocked(pl)
            /\ enc' = StoppedEncoder
            /\ owed' = FALSE
  /\ ResetSubs(sub, subs, pl'.gen)
  /\ UNCHANGED <<subs, cooling, push>>

\* SetSize, SetViewport, SetProfile with a changed value.
Reconfigure(ok) ==
  /\ GenAvailable(2)
  /\ IF pl.running THEN Cycle(ok) ELSE UNCHANGED <<pl, enc, owed>>
  /\ ResetSubs(sub, subs, pl'.gen)
  /\ UNCHANGED <<subs, stopTimer, cooling, push>>

\* The start retry timer, whose callback checks that it is still current.
RetryStart(ok) ==
  /\ pl.retry
  /\ GenAvailable(1)
  /\ IF subs = {} \/ pl.running
       THEN pl' = [pl EXCEPT !.retry = FALSE] /\ UNCHANGED <<enc, sub, taken>>
       ELSE /\ pl' = StartLocked(pl, ok, subs)
            /\ enc' = StartedEncoder(ok)
            /\ ResetSubs(sub, subs, pl.gen + 1)
  /\ UNCHANGED <<subs, stopTimer, cooling, owed, push>>

RequestKeyframe ==
  /\ pl.running
  /\ EnsureKeyframe(sub, subs)
  /\ UNCHANGED <<subs, stopTimer, push>>

\* The deferred-keyframe timer, armed for the rest of the cooldown.
DeferredKeyframe ==
  /\ pl.keyframe
  /\ ~cooling
  /\ pl' = [pl EXCEPT !.keyframe = FALSE]
  /\ Ask(sub, subs)
  /\ UNCHANGED <<subs, stopTimer, push>>

CooldownEnds ==
  /\ cooling
  /\ cooling' = FALSE
  /\ UNCHANGED <<subs, sub, pl, stopTimer, owed, enc, push, taken>>

Shutdown ==
  /\ GenAvailable(1)
  /\ pl' = StopLocked(pl)
  /\ enc' = StoppedEncoder
  /\ owed' = FALSE
  /\ stopTimer' = IF stopTimer = "armed" THEN "off" ELSE stopTimer
  /\ sub' = [s \in Sub |-> IF s \in subs THEN [sub[s] EXCEPT !.life = "closed"] ELSE sub[s]]
  /\ subs' = {}
  /\ UNCHANGED <<cooling, push, taken>>

----------------------------------------------------------------------------
(* Access units *)

\* The encoder emits one, and Push stamps it with the generation it reads.
Encode ==
  /\ enc.on /\ enc.n < MaxAU
  /\ push = Idle
  /\ enc' = [enc EXCEPT !.n = @ + 1, !.ask = FALSE]
  /\ push' = IF pl.running
               THEN [step |-> "stamped", targets |-> {},
                     au |-> [enc |-> enc.id, n |-> enc.n + 1, idr |-> enc.ask,
                             gen |-> pl.gen]]
               ELSE Idle
  /\ UNCHANGED <<subs, sub, pl, stopTimer, cooling, owed, taken>>

Broadcast ==
  /\ push.step = "stamped"
  /\ push' = IF push.au.gen = pl.gen /\ pl.running /\ subs # {}
               THEN [push EXCEPT !.step = "offering", !.targets = subs]
               ELSE Idle
  /\ UNCHANGED <<subs, sub, pl, stopTimer, cooling, owed, enc, taken>>

\* Bugs: the unit after a full queue is accepted, or the queue grows past its
\* capacity.
OfferedForgetsDrop(r, au) ==
  IF r.life = "closed" \/ au.gen # r.gen \/ (r.dropped /\ ~au.idr) THEN r
  ELSE IF Len(r.q) < SubQueueCap
         THEN [r EXCEPT !.q = Append(@, au), !.dropped = FALSE]
         ELSE r

\* offer: a subscription of another generation, or one that waits for an IDR,
\* ignores the unit; a full queue drops it and what depends on it.
Offered(r, au) ==
  IF r.life = "closed" \/ au.gen # r.gen \/ (r.dropped /\ ~au.idr) THEN r
  ELSE IF Len(r.q) < SubQueueCap
         THEN [r EXCEPT !.q = Append(@, au), !.dropped = FALSE]
         ELSE [r EXCEPT !.dropped = TRUE]

Offer(s) ==
  /\ s \in push.targets
  /\ sub' = [sub EXCEPT ![s] = Offered(@, push.au)]
  /\ push' = IF push.targets = {s} THEN Idle ELSE [push EXCEPT !.targets = @ \ {s}]
  /\ UNCHANGED <<subs, pl, stopTimer, cooling, owed, enc, taken>>

\* The pump receives; a closed subscription still yields what it holds.
Receive(s) ==
  /\ sub[s].q # <<>>
  /\ taken' = [taken EXCEPT ![s] = Name(Head(sub[s].q))]
  /\ sub' = [sub EXCEPT ![s].q = Tail(@)]
  /\ UNCHANGED <<subs, pl, stopTimer, cooling, owed, enc, push>>

\* The socket refused the unit: deliverAU resyncs, then asks for a keyframe in
\* another goroutine (RequestKeyframe).
ForceResync(s) ==
  /\ sub[s].life = "open"
  /\ ~sub[s].dropped
  /\ sub' = [sub EXCEPT ![s].dropped = TRUE]
  /\ UNCHANGED <<subs, pl, stopTimer, cooling, owed, enc, push, taken>>

Next ==
  \/ \E s \in Sub, ok \in BOOLEAN : Subscribe(s, ok)
  \/ \E s \in Sub : Close(s)
  \/ IdleElapses
  \/ IdleCallback
  \/ \E ok \in BOOLEAN : Restart(ok)
  \/ \E ok \in BOOLEAN : Reconfigure(ok)
  \/ \E ok \in BOOLEAN : RetryStart(ok)
  \/ RequestKeyframe
  \/ DeferredKeyframe
  \/ CooldownEnds
  \/ Shutdown
  \/ Encode
  \/ Broadcast
  \/ \E s \in Sub : Offer(s)
  \/ \E s \in Sub : Receive(s)
  \/ \E s \in Sub : ForceResync(s)

\* Timers fire and their callbacks get the mutex.
Fairness ==
  /\ WF_vars(IdleElapses)
  /\ WF_vars(IdleCallback)
  /\ WF_vars(CooldownEnds)
  /\ WF_vars(DeferredKeyframe)

Spec == Init /\ [][Next]_vars /\ Fairness

----------------------------------------------------------------------------
(* Properties *)

\* A subscription is never left without a source: either the encoder runs or a
\* retry of its start is pending, whatever starts fail and whoever restarts,
\* resizes, joins or leaves meanwhile.
NeverStranded == subs # {} => pl.running \/ pl.retry

Follows(a, b) == b.idr \/ (b.enc = a.enc /\ b.n = a.n + 1)

\* What waits for a pump can be decoded: each unit is of the subscription's
\* generation, whose configuration the client is told first, and is an IDR or
\* follows, in the same encoder, the one before it (the first: the one the pump took
\* last), across drops, resyncs, keyframe requests and generations.
QueueDecodable(s) ==
  LET q == sub[s].q IN
  /\ \A i \in 1..Len(q) : q[i].gen = sub[s].gen
  /\ q # <<>> => Follows(taken[s], q[1])
  /\ \A i \in 2..Len(q) : Follows(q[i - 1], q[i])
Decodable == \A s \in Sub : QueueDecodable(s)

\* "Recovery requests are coalesced, never discarded": a keyframe that was asked
\* for during the cooldown reaches the encoder, unless that encoder is replaced.
KeyframeNotDiscarded == owed ~> ~owed

----------------------------------------------------------------------------
(* The inductive invariant behind them *)

AccessUnit == [enc : Nat, n : Nat, idr : BOOLEAN, gen : Nat]
Subscription ==
  [life : {"new", "open", "closed"}, gen : Nat, dropped : BOOLEAN, q : Seq(AccessUnit)]
Pipeline == [running : BOOLEAN, gen : Nat, retry : BOOLEAN, keyframe : BOOLEAN]
Encoder == [on : BOOLEAN, id : Nat, n : Nat, ask : BOOLEAN]

TypeOK ==
  /\ subs \in SUBSET Sub
  /\ sub \in [Sub -> Subscription]
  /\ pl \in Pipeline
  /\ enc \in Encoder
  /\ push \in [step : {"idle", "stamped", "offering"}, au : AccessUnit, targets : SUBSET Sub]
  /\ taken \in [Sub -> [enc : Nat, n : Nat]]

OpenAreAttached == \A s \in Sub : sub[s].life = "open" => s \in subs
AttachedBegun == \A s \in subs \cup push.targets : sub[s].life # "new"
EncoderFollows == enc.on => pl.running
GenerationsPast == \A s \in Sub : sub[s].gen <= pl.gen

\* The unit inside Push is of a generation that has passed, or the encoder that
\* made it still runs and has made no other since.
PushCurrent ==
  /\ push.step = "idle" => push = Idle
  /\ push.step = "stamped" => push.targets = {}
  /\ push.au.gen <= pl.gen
  /\ push.step # "idle" /\ push.au.gen = pl.gen
       => pl.running /\ push.au.enc = enc.id /\ push.au.n = enc.n

\* The unit after which a subscription expects the next one.
LastUnit(s) == IF sub[s].q = <<>> THEN taken[s] ELSE Name(sub[s].q[Len(sub[s].q)])
Pending(s) == (push.step = "stamped" \/ s \in push.targets) /\ push.au.gen = sub[s].gen

\* A subscription that does not wait for an IDR has missed nothing: the unit that
\* is on its way to it, or else the one that the encoder will make next, follows
\* its last one.
InStep(s) ==
  sub[s].life = "open" /\ ~sub[s].dropped =>
    IF Pending(s) THEN Follows(LastUnit(s), push.au)
    ELSE sub[s].gen = pl.gen => LastUnit(s) = [enc |-> enc.id, n |-> enc.n]

PipelineInv ==
  /\ TypeOK
  /\ NeverStranded
  /\ OpenAreAttached
  /\ EncoderFollows
  /\ GenerationsPast
  /\ PushCurrent
  /\ \A s \in Sub : QueueDecodable(s) /\ InStep(s)
=============================================================================
