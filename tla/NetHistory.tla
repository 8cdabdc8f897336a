----------------------------- MODULE NetHistory -----------------------------
(***************************************************************************)
(* The network collector's memory (NetHistory and NetCollector.collect in  *)
(* kpidash_client/net.py), for one cumulative counter of a bonded host:    *)
(* the primary slave's Link Failure Count.  It is sampled at every tick;   *)
(* the samples of a day and the drops of an hour are kept, saved to a file *)
(* and published.  The process may crash, the host reboot and the bond be  *)
(* made anew between any two ticks.                                        *)
(***************************************************************************)
EXTENDS Integers, FiniteSetsExt, Sequences, SequencesExt, Lists

CONSTANTS
    Day,        \* DAY_S
    Hour,       \* HOUR_S
    KeepFor,    \* SAMPLE_KEEP_S
    DropsMax,   \* DROPS_MAX
    None,       \* null
    MaxTime,    \* bound on now
    MaxTrouble  \* bound on trouble

ASSUME HistoryConstants ==
    /\ Day \in Nat /\ Hour \in Nat \ {0} /\ KeepFor \in Nat /\ DropsMax \in Nat
    /\ MaxTime \in Nat /\ MaxTrouble \in Nat
    /\ None \notin Nat /\ None \notin [ts : Nat, v : Nat]

VARIABLES
    now,        \* time.time(), never set back here
    counter,    \* the kernel's counter
    trouble,    \* how many failures, resets and crashes there have been
    running,    \* the client runs
    series,     \* self.lfc: samples [ts, v]
    drops,      \* self.drops: their times
    last,       \* last_drop_ts and last_drop_counter, [ts, v] or None
    file,       \* net-history.json
    record,     \* the latest kdash:net record written, or None
    ticked,     \* the time of the latest tick; one tick has one time
    seen,       \* the latest sample of any process, [ts, v] or None
    rises,      \* the rises between ticks: [from, to, n], watched: one
                \* process saw both, and the file or the counter tells it on
    failures,   \* times of the link failures of the last two hours
    told,       \* drops that a tick has put into the file
    resetAt,    \* when the counter last started anew
    masked      \* when the first sample after a reset was last overwritten

kernelVars == <<now, counter, trouble, resetAt>>
memoryVars == <<running, series, drops, last>>
logVars == <<ticked, seen, rises, told, masked>>
historyVars == <<kernelVars, memoryVars, file, record, logVars, failures>>

EmptyFile == [series |-> <<>>, drops |-> <<>>]

HistoryInit ==
    /\ now = 0 /\ counter \in {0, 1} /\ trouble = 0 /\ resetAt = 0
    /\ running = TRUE /\ series = <<>> /\ drops = <<>> /\ last = None
    /\ file = EmptyFile /\ record = None
    /\ ticked = -1 /\ seen = None /\ rises = {} /\ failures = {} /\ told = {}
    /\ masked = None

-----------------------------------------------------------------------------
(* Time and the kernel. *)

(* The unit of time is that of a tick: a client that runs misses none.      *)
Elapse ==
    /\ now < MaxTime
    /\ running => ticked = now
    /\ now' = now + 1
    /\ failures' = {t \in failures : now' - t <= 2 * Hour}
    /\ UNCHANGED <<counter, trouble, resetAt, memoryVars, file, record, logVars>>

Trouble == trouble < MaxTrouble /\ trouble' = trouble + 1

LinkFails ==
    /\ Trouble
    /\ counter' = counter + 1
    /\ failures' = failures \cup {now}
    /\ UNCHANGED <<now, resetAt, memoryVars, file, record, logVars>>

(* The bond is made anew, with the counter at 0. *)
BondReset ==
    /\ Trouble
    /\ counter > 0
    /\ counter' = 0 /\ resetAt' = now
    /\ UNCHANGED <<now, memoryVars, file, record, logVars, failures>>

-----------------------------------------------------------------------------
(* _keep and _delta. *)

(* The newest sample may be overwritten: it is too near the one before it,  *)
(* and the counter has not been reset since.                                *)
Provisional(samples, v) ==
    /\ Len(samples) >= 2
    /\ samples[Len(samples)].ts - samples[Len(samples) - 1].ts < KeepFor
    /\ v >= Last(samples).v

(* Though a reset is "always kept" says the code, its sample is provisional *)
(* as well: the next one within KeepFor overwrites it, and if the counter   *)
(* has come up to where it was before, the reset is gone from the series.   *)
Masks(samples, v) ==
    /\ Provisional(samples, v)
    /\ samples[Len(samples)].v < samples[Len(samples) - 1].v
    /\ v >= samples[Len(samples) - 1].v

WithSample(samples, v) ==
    LET older == IF Provisional(samples, v) THEN Front(samples) ELSE samples
        all   == Append(older, [ts |-> now, v |-> v])
    IN  Within(all, {s \in ToSet(all) : now - s.ts <= Day + KeepFor})

(* After a reset the counter has risen from 0. *)
Rise(a, b) == IF b >= a THEN b - a ELSE b

AddRise(n, pair) == n + Rise(pair[1].v, pair[2].v)
SumOfRises(samples) ==
    FoldLeft(AddRise, 0, [i \in 1 .. Len(samples) - 1 |-> <<samples[i], samples[i + 1]>>])

(* Mutant: the samples kept for longer than a day count too. *)
DeltaOfAll(samples) ==
    IF Len(samples) < 2 THEN None ELSE SumOfRises(samples)

Delta(samples) ==
    LET window == Within(samples, {s \in ToSet(samples) : now - s.ts <= Day})
    IN  IF Len(window) < 2 THEN None ELSE SumOfRises(window)

-----------------------------------------------------------------------------
(* The ticks. *)

(* The log of rises, kept up over crashes: what a process had seen since    *)
(* its last save is lost only if the counter starts anew before the next    *)
(* process looks, which then counts from what was saved.                    *)
Logged(v) ==
    LET lost == seen # None /\ Last(series).ts < seen.ts /\ v < seen.v
        base == IF lost THEN Last(series) ELSE seen
        step == [from |-> base.ts, to |-> now, n |-> Rise(base.v, v), watched |-> last # None]
        old  == {[r EXCEPT !.watched = @ /\ (lost => r.to <= base.ts)] : r \in rises}
    IN  IF seen = None \/ Rise(seen.v, v) = 0 THEN old ELSE old \cup {step}

(* The drops a tick sees: none at the first tick of a process, nor across a *)
(* gap of more than an hour.                                                *)
NewDrops ==
    IF last = None THEN 0
    ELSE IF now - last.ts > Hour THEN 0 ELSE Rise(last.v, counter)

(* Mutant: the drops of an hour may be any number. *)
YoungestUnlimited(times) == Within(times, {t \in ToSet(times) : now - t < Hour})

Youngest(times) ==
    LET young == Within(times, {t \in ToSet(times) : now - t < Hour})
    IN  SubSeq(young, Max({1, Len(young) - DropsMax + 1}), Len(young))

(* NetCollector.collect and write_net: the sample is kept, new drops are    *)
(* placed, the file is saved if either changed it, and the record is set,   *)
(* unless Redis is away.                                                    *)
Tick ==
    LET samples == WithSample(series, counter)
        noted   == drops \o [i \in 1 .. Min({NewDrops, DropsMax}) |-> now]
        young   == Youngest(noted)
        dirty   == ~Provisional(series, counter) \/ NewDrops > 0 \/ young # noted
    IN  /\ running /\ ticked < now
        /\ ticked' = now
        /\ series' = samples /\ drops' = young
        /\ last' = [ts |-> now, v |-> counter]
        /\ file' = IF dirty THEN [series |-> samples, drops |-> young] ELSE file
        /\ record' \in {record,
               [lfc |-> counter, delta |-> Delta(samples), drops |-> young,
                ts |-> now]}
        /\ seen' = [ts |-> now, v |-> counter]
        /\ rises' = Logged(counter)
        /\ told' = {t \in told : now - t < Hour} \cup ToSet(young)
        /\ masked' = IF Masks(series, counter) THEN now ELSE masked
        /\ UNCHANGED <<kernelVars, running, failures>>

(* The process ends; a reboot also brings the bond up with its counter      *)
(* initialised, to 0 or, with an early loss of carrier, to 1.               *)
Crash ==
    /\ Trouble
    /\ running
    /\ running' = FALSE /\ series' = <<>> /\ drops' = <<>> /\ last' = None
    /\ \/ UNCHANGED <<counter, resetAt>>
       \/ counter' \in {0, 1} /\ resetAt' = now
    /\ UNCHANGED <<now, file, record, logVars, failures>>

(* Mutant: the last link state is restored as well. *)
StartRemembers ==
    /\ ~running
    /\ running' = TRUE /\ series' = file.series /\ drops' = file.drops
    /\ last' = IF file.series = <<>> THEN None ELSE Last(file.series)
    /\ UNCHANGED <<kernelVars, file, record, logVars, failures>>

(* NetHistory.__init__: samples and drops come back, the last link state    *)
(* does not.                                                                *)
Start ==
    /\ ~running
    /\ running' = TRUE /\ series' = file.series /\ drops' = file.drops
    /\ UNCHANGED <<kernelVars, last, file, record, logVars, failures>>

HistoryNext ==
    \/ Elapse \/ LinkFails \/ BondReset
    \/ Tick \/ Crash \/ Start

-----------------------------------------------------------------------------
(* Properties. *)

HistoryTypeOK ==
    /\ now \in 0 .. MaxTime /\ counter \in 0 .. MaxTrouble + 1 /\ running \in BOOLEAN
    /\ \A s \in ToSet(series) \cup ToSet(file.series) :
        s \in [ts : 0 .. now, v : 0 .. MaxTrouble + 1]
    /\ \A s \in {series, file.series} :
        \A i, j \in DOMAIN s : i < j => s[i].ts < s[j].ts
    /\ Len(drops) <= DropsMax /\ ToSet(drops) \subseteq 0 .. now
    /\ \A s \in {last, seen} : s = None \/ s \in [ts : 0 .. now, v : 0 .. MaxTrouble + 1]
    /\ ticked \in -1 .. now /\ told \subseteq 0 .. now /\ failures \subseteq 0 .. now

Total(steps) == MapThenSumSet(LAMBDA r : r.n, steps)

(* The published delta covers every rise of the last day that a process     *)
(* watched, but for those near its far end, and nothing seen before the    *)
(* day, although samples are overwritten, dropped and lost in crashes, and  *)
(* resets come between.  The one exception is a reset that Masks hides.     *)
DeltaTells ==
    record # None /\ record.ts = now =>
        LET inDay == {r \in rises : r.from >= now - Day}
            due   == {r \in rises : r.watched /\ r.from >= now - Day + KeepFor}
        IN  /\ record.delta = None => due = {}
            /\ record.delta # None =>
                /\ record.delta <= Total(inDay)
                /\ \/ record.delta >= Total(due)
                   \/ masked # None /\ now - masked <= Day

(* The published drops are link failures of the last two hours, never a     *)
(* counter that started anew with the host, and hold every drop of the last *)
(* hour that any process told of, up to their limit.                        *)
DropsTell ==
    record # None /\ record.ts = now =>
        /\ \A t \in ToSet(record.drops) : \E f \in failures : t - Hour <= f /\ f <= t
        /\ \/ {t \in told : now - t < Hour} \subseteq ToSet(record.drops)
           \/ Len(record.drops) = DropsMax
=============================================================================
