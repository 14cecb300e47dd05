----------------------------- MODULE AnimExport -----------------------------
(***************************************************************************)
(* AnimExportTask::Execute: at which times the objects of an export are    *)
(* sampled.  Transforms are exported at every frame of the range.  Objects *)
(* are exported at the times their validity intervals call for, so that    *)
(* USD's interpolation fills in the rest, and all that is exported at one  *)
(* time is exported in one go, because 3ds Max caches the state of the     *)
(* scene at one time only.                                                 *)
(*                                                                         *)
(* Times are ticks; 0 stands for the distant past and Horizon for the      *)
(* distant future.                                                         *)
(***************************************************************************)
EXTENDS Naturals

CONSTANTS
    Objects,        \* objectExportOps
    Horizon,
    Configs,        \* time configurations: the range and the step of frames
    Validities,     \* for each object, the interval its data is valid in at a time
    Never           \* an object that needs no further sample

Times == 0..Horizon

ASSUME HorizonAssumption == Horizon \in Nat
ASSUME NeverAssumption == Never \notin Nat
ASSUME ConfigsAssumption ==
    \A c \in Configs :
        /\ c.start \in Nat /\ c.end \in Nat /\ c.step \in Nat \ {0}
        /\ c.start <= c.end /\ c.end + c.step <= Horizon
ASSUME ValiditiesAssumption ==
    Validities \subseteq [Objects -> [Times -> [start : Times, end : Times]]]

VARIABLES
    config,         \* timeConfig
    validity,       \* what getValidityInterval returns
    framesLeft,     \* the times in exportTimes at which transforms are due
    due,            \* the time in exportTimes at which an object is due
    samples,        \* the times at which an object was written
    phase

vars == <<config, validity, framesLeft, due, samples, phase>>

\* Every frame of the range, and its end.
Frames ==
    {t \in config.start..config.end :
        t = config.end \/ (t - config.start) % config.step = 0}

\* The last time of the interval that is valid at the start, or the start.
FirstSample(range, intervals) ==
    LET last == intervals[range.start].end
    IN  IF range.start < last /\ last < range.end THEN last ELSE range.start

\* Objects are due and sampled within the range, whatever their intervals are.
TypeOK ==
    /\ config \in Configs
    /\ validity \in Validities
    /\ framesLeft \subseteq Frames
    /\ due \in [Objects -> config.start..config.end \union {Never}]
    /\ samples \in [Objects -> SUBSET (config.start..config.end)]
    /\ phase \in {"exporting", "done"}

Init ==
    /\ config \in Configs
    /\ validity \in Validities
    /\ framesLeft = Frames
    /\ due = [o \in Objects |-> FirstSample(config, validity[o])]
    /\ samples = [o \in Objects |-> {}]
    /\ phase = "exporting"

\* Mutant of Candidate: the ends of intervals are not exported.
CandidateStart(o, t) ==
    LET interval == validity[o][t + config.step]
    IN  IF interval.start > config.end THEN config.end ELSE interval.start

\* The start or the end of the interval of the next frame, within the range.
Candidate(o, t) ==
    LET interval == validity[o][t + config.step]
        wanted == IF interval.end < config.end /\ t = interval.start
                  THEN interval.end ELSE interval.start
    IN  IF wanted > config.end THEN config.end ELSE wanted

\* Mutant of NextSample: a time that is over may be due again.
AnyNextSample(o, t) == IF Candidate(o, t) = t THEN Never ELSE Candidate(o, t)

\* Mutant of NextSample: the time just exported is due again.
SameSample(o, t) == IF t > Candidate(o, t) THEN Never ELSE Candidate(o, t)

NextSample(o, t) == IF t >= Candidate(o, t) THEN Never ELSE Candidate(o, t)

\* Nothing in exportTimes is earlier than t.
IsNext(t) ==
    /\ \A f \in framesLeft : t <= f
    /\ \A o \in Objects : due[o] # Never => t <= due[o]

ExportObject(o) ==
    /\ due[o] # Never
    /\ IsNext(due[o])
    /\ samples' = [samples EXCEPT ![o] = @ \union {due[o]}]
    /\ due' = [due EXCEPT ![o] = NextSample(o, due[o])]
    /\ UNCHANGED <<config, validity, framesLeft, phase>>

\* Transforms follow the objects of the same time.
ExportTransforms(t) ==
    /\ IsNext(t)
    /\ \A o \in Objects : due[o] # t
    /\ framesLeft' = framesLeft \ {t}
    /\ UNCHANGED <<config, validity, due, samples, phase>>

PostExport ==
    /\ phase = "exporting"
    /\ framesLeft = {}
    /\ \A o \in Objects : due[o] = Never
    /\ phase' = "done"
    /\ UNCHANGED <<config, validity, framesLeft, due, samples>>

Next ==
    \/ \E o \in Objects : ExportObject(o)
    \/ \E t \in framesLeft : ExportTransforms(t)
    \/ PostExport

\* Execute runs to its end on one thread.
Spec == Init /\ [][Next]_vars /\ WF_vars(Next)

-----------------------------------------------------------------------------
(* Properties *)

\* The interval that holds at a time tells the data at that time.
SameData(o, s, t) == validity[o][s] = validity[o][t]

\* What USD interpolates at t is the data at t: the samples around t are of
\* the same interval, or there is one at t.
IsExact(o, t) ==
    LET before == {s \in samples[o] : s <= t}
        after == {s \in samples[o] : s >= t}
    IN  /\ before # {} => \E s \in before :
                            SameData(o, s, t) /\ \A r \in before : r <= s
        /\ after # {} => \E s \in after :
                            SameData(o, s, t) /\ \A r \in after : r >= s

\* At every frame the exported animation has the data the object had.
FramesAreExact ==
    phase = "done" => \A o \in Objects, t \in Frames : samples[o] # {} /\ IsExact(o, t)

OnFrame(c, t) == c.start <= t /\ (t - c.start) % c.step = 0

\* The intervals of f fit together, and the data is keyed: a stretch without a
\* change begins at a key, which is on a frame, and lasts to a key, to the end of
\* time, or to the tick before another stretch.  Before the range it may do
\* otherwise.
IsKeyed(f, c) ==
    \A t \in Times :
        LET i == f[t] IN
        /\ t \in i.start..i.end /\ \A s \in i.start..i.end : f[s] = i
        /\ i.start < i.end /\ c.start <= i.end =>
             /\ i.start < c.start \/ OnFrame(c, i.start)
             /\ OnFrame(c, i.end) \/ i.end = Horizon \/ i.end + 1 < f[i.end + 1].end

KeyedData == \A c \in Configs, v \in Validities : \A o \in Objects : IsKeyed(v[o], c)

\* A time is exported in one go: once its transforms or a sample of an object
\* are written, that object is not due there or earlier again, and no object
\* is ever due before a time that another was written at.
OneGoPerTime ==
    \A o \in Objects : due[o] # Never =>
        /\ \A t \in samples[o] \union (Frames \ framesLeft) : t < due[o]
        /\ \A p \in Objects : \A t \in samples[p] : t <= due[o]

\* The loop over exportTimes ends, although it adds to them.
Terminates == <>(phase = "done")

=============================================================================
