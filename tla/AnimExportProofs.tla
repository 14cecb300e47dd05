-------------------------- MODULE AnimExportProofs --------------------------
(***************************************************************************)
(* The times of AnimExport stay in the range and are exported in one go,   *)
(* for every set of objects, time configuration and validity: the          *)
(* invariant is inductive because the next sample is always later.         *)
(***************************************************************************)
EXTENDS AnimExport, TLAPS

IInv == TypeOK /\ OneGoPerTime

\* The range of a configuration lies in Times, and so does the frame after a
\* time of the range.
LEMMA RangeInTimes ==
    ASSUME config \in Configs, NEW t \in config.start..config.end
    PROVE  /\ config.start \in Nat /\ config.end \in Nat
           /\ config.start <= config.end
           /\ t \in Nat
           /\ t + config.step \in Times
BY ConfigsAssumption, HorizonAssumption DEF Times

\* The first sample of an object is in the range.
LEMMA FirstSampleInRange ==
    ASSUME config \in Configs, validity \in Validities, NEW o \in Objects
    PROVE  FirstSample(config, validity[o]) \in config.start..config.end
<1>1. /\ config.start \in Nat /\ config.end \in Nat /\ config.start <= config.end
      /\ config.start \in Times
  BY ConfigsAssumption, HorizonAssumption DEF Times
<1>2. validity[o][config.start] \in [start : Times, end : Times]
  BY <1>1, ValiditiesAssumption
<1>3. validity[o][config.start].end \in Nat
  BY <1>2, HorizonAssumption DEF Times
<1> QED
  BY <1>1, <1>3 DEF FirstSample

\* The next sample of an object, if any, is later and in the range.
LEMMA NextSampleIsLater ==
    ASSUME config \in Configs, validity \in Validities, NEW o \in Objects,
           NEW t \in config.start..config.end
    PROVE  \/ NextSample(o, t) = Never
           \/ /\ NextSample(o, t) \in config.start..config.end
              /\ t < NextSample(o, t)
<1>1. /\ config.start \in Nat /\ config.end \in Nat /\ t \in Nat
      /\ config.start <= t /\ t + config.step \in Times
  BY RangeInTimes
<1>2. validity[o][t + config.step] \in [start : Times, end : Times]
  BY <1>1, ValiditiesAssumption
<1>3. Candidate(o, t) \in Nat /\ Candidate(o, t) <= config.end
  BY <1>1, <1>2 DEF Candidate, Times
<1> QED
  BY <1>1, <1>3 DEF NextSample

\* It holds at the start: no sample is written, and the first ones are in the range.
LEMMA InitInv == Init => IInv
<1> SUFFICES ASSUME Init PROVE IInv
  OBVIOUS
<1>1. \A o \in Objects : FirstSample(config, validity[o]) \in config.start..config.end
  BY FirstSampleInRange DEF Init
<1>2. TypeOK
  BY <1>1 DEF Init, TypeOK
<1>3. OneGoPerTime
  BY DEF Init, OneGoPerTime
<1> QED
  BY <1>2, <1>3 DEF IInv

\* Exporting an object at its time keeps the invariant: nothing was exported
\* after that time, and the object is due later or never again.
LEMMA ObjectStep ==
    ASSUME IInv, NEW q \in Objects, ExportObject(q)
    PROVE  IInv'
<1> DEFINE d == due[q]
<1>1. /\ d \in config.start..config.end /\ d \in Nat
      /\ config.start \in Nat /\ config.end \in Nat
  BY RangeInTimes DEF IInv, TypeOK, ExportObject
<1>2. \/ due'[q] = Never
      \/ due'[q] \in config.start..config.end /\ d < due'[q]
  BY <1>1, NextSampleIsLater DEF IInv, TypeOK, ExportObject
<1>3. UNCHANGED <<config, validity, framesLeft, phase, Frames>>
  BY DEF ExportObject, Frames
<1>4. /\ \A o \in Objects \ {q} : due'[o] = due[o] /\ samples'[o] = samples[o]
      /\ samples'[q] = samples[q] \union {d}
  BY DEF IInv, TypeOK, ExportObject
<1>5. TypeOK'
  BY <1>1, <1>2, <1>3 DEF IInv, TypeOK, ExportObject
<1>6. ASSUME NEW o \in Objects, due'[o] # Never
      PROVE  /\ \A t \in samples'[o] \union (Frames' \ framesLeft') : t < due'[o]
             /\ \A p \in Objects : \A t \in samples'[p] : t <= due'[o]
  <2>1. due'[o] \in config.start..config.end /\ due'[o] \in Nat
    BY <1>1, <1>3, <1>5, <1>6 DEF TypeOK
  <2>2. \A p \in Objects : \A t \in samples[p] : t \in Nat /\ t <= d
    BY <1>1 DEF IInv, TypeOK, OneGoPerTime, ExportObject
  <2>3. \A t \in samples[q] \union (Frames \ framesLeft) : t \in Nat /\ t < d
    BY <1>1 DEF IInv, TypeOK, OneGoPerTime, ExportObject, Frames
  <2>4. CASE o = q
    <3>1. d < due'[o]
      BY <1>2, <1>6, <2>4
    <3>2. \A t \in samples'[o] \union (Frames' \ framesLeft') : t < due'[o]
      BY <1>1, <1>3, <1>4, <2>1, <2>3, <2>4, <3>1
    <3>3. \A p \in Objects : \A t \in samples'[p] : t <= due'[o]
      BY <1>1, <1>4, <2>1, <2>2, <3>1
    <3> QED
      BY <3>2, <3>3
  <2>5. CASE o # q
    <3>1. due'[o] = due[o] /\ samples'[o] = samples[o] /\ d <= due[o]
      BY <1>4, <1>6, <2>5 DEF ExportObject, IsNext
    <3>2. \A t \in samples'[o] \union (Frames' \ framesLeft') : t < due'[o]
      BY <1>3, <1>6, <3>1 DEF IInv, OneGoPerTime
    <3>3. \A p \in Objects : \A t \in samples'[p] : t <= due'[o]
      BY <1>1, <1>4, <2>1, <2>2, <3>1
    <3> QED
      BY <3>2, <3>3
  <2> QED
    BY <2>4, <2>5
<1>7. OneGoPerTime'
  BY <1>6 DEF OneGoPerTime
<1> QED
  BY <1>5, <1>7 DEF IInv

\* Exporting the transforms of a time keeps the invariant: no object is due
\* at that time any more.
LEMMA TransformStep ==
    ASSUME IInv, NEW f \in framesLeft, ExportTransforms(f)
    PROVE  IInv'
<1>1. UNCHANGED <<config, validity, due, samples, phase, Frames>>
  BY DEF ExportTransforms, Frames
<1>2. TypeOK'
  BY <1>1 DEF IInv, TypeOK, ExportTransforms
<1>3. \A o \in Objects : due[o] # Never => f < due[o]
  <2> SUFFICES ASSUME NEW o \in Objects, due[o] # Never PROVE f < due[o]
    OBVIOUS
  <2>1. f <= due[o] /\ f # due[o]
    BY DEF ExportTransforms, IsNext
  <2>2. due[o] \in Nat /\ f \in Nat
    BY RangeInTimes DEF IInv, TypeOK, Frames
  <2> QED
    BY <2>1, <2>2
<1>4. OneGoPerTime'
  BY <1>1, <1>3 DEF IInv, OneGoPerTime, ExportTransforms
<1> QED
  BY <1>2, <1>4 DEF IInv

\* And every step keeps it.
LEMMA NextInv == IInv /\ [Next]_vars => IInv'
<1> SUFFICES ASSUME IInv, [Next]_vars PROVE IInv'
  OBVIOUS
<1>1. CASE \E o \in Objects : ExportObject(o)
  BY <1>1, ObjectStep
<1>2. CASE \E t \in framesLeft : ExportTransforms(t)
  BY <1>2, TransformStep
<1>3. CASE PostExport
  BY <1>3 DEF IInv, TypeOK, OneGoPerTime, PostExport, Frames
<1>4. CASE UNCHANGED vars
  BY <1>4 DEF IInv, TypeOK, OneGoPerTime, vars, Frames
<1> QED
  BY <1>1, <1>2, <1>3, <1>4 DEF Next

\* What is due and what was sampled stays in the range that is exported.
THEOREM SamplesStayInRange == Spec => []TypeOK
<1>1. IInv => TypeOK
  BY DEF IInv
<1> QED
  BY <1>1, InitInv, NextInv, PTL DEF Spec

\* exportTimes is added to while it is walked, but never behind the walk: each
\* time is exported in one go, an object at most once per time and before its
\* transforms.
THEOREM TimesAreExportedInOneGo == Spec => []OneGoPerTime
<1>1. IInv => OneGoPerTime
  BY DEF IInv
<1> QED
  BY <1>1, InitInv, NextInv, PTL DEF Spec


-----------------------------------------------------------------------------
(* FramesAreExact, for keyed data.                                         *)

\* What holds of a time that an object is sampled at: it is on a frame, or the
\* last tick before another stretch; and it is an end of its own stretch.
Place(o, d) ==
    LET f == validity[o] IN
    /\ \/ OnFrame(config, d) \/ d = config.end
       \/ f[d].end = d /\ d + 1 < f[d + 1].end
    /\ f[d].start = d \/ f[d].end = d \/ config.end <= f[d].end

\* Frames between two samples have the data of both.
Linked(o, m, d) ==
    \A t \in Frames : m < t /\ t < d => SameData(o, m, t) /\ SameData(o, d, t)

\* Frames after the last sample have its data, up to the next one if there is one.
Continues(o, m) ==
    IF due[o] = Never THEN \A t \in Frames : m < t => SameData(o, m, t)
                      ELSE Linked(o, m, due[o])

ExactSoFar(o) ==
    /\ \A m \in samples[o] : \A t \in Frames : t <= m => IsExact(o, t)
    /\ samples[o] = {} =>
          due[o] # Never /\ \A t \in Frames : t < due[o] => SameData(o, due[o], t)
    /\ samples[o] # {} =>
          \E m \in samples[o] : (\A r \in samples[o] : r <= m) /\ Continues(o, m)

ExactInv ==
    /\ \A o \in Objects : ExactSoFar(o) /\ (due[o] # Never => Place(o, due[o]))
    /\ phase = "done" => \A o \in Objects : due[o] = Never

\* A multiple of a number.
LEMMA Multiple ==
    ASSUME NEW s \in Nat \ {0}, NEW a \in Nat, a % s = 0
    PROVE  \E q \in Nat : a = s * q
<1>1. a = s * (a \div s) + (a % s) /\ a \div s \in Nat
  BY SMT
<1> QED BY <1>1, SMT

\* Different multiples of a step are a step apart, and a step after one is another.
LEMMA MultiplesApart ==
    ASSUME NEW s \in Nat \ {0}, NEW a \in Nat, a % s = 0
    PROVE  /\ (a + s) % s = 0
           /\ \A b \in Nat : b % s = 0 /\ a < b => a + s <= b
<1>1. PICK p \in Nat : a = s * p
  BY Multiple
<1>2. a + s = s * (p + 1)
  BY <1>1, SMT
<1>3. (s * (p + 1)) % s = 0
  BY SMT
<1>4. ASSUME NEW b \in Nat, b % s = 0, a < b
      PROVE  a + s <= b
  <2>1. PICK q \in Nat : b = s * q
    BY <1>4, Multiple
  <2>2. p + 1 <= q
    BY <1>1, <1>4, <2>1, SMT
  <2>3. s * (p + 1) <= s * q
    BY <2>2, SMT
  <2> QED BY <1>2, <2>1, <2>3, SMT
<1> QED BY <1>2, <1>3, <1>4

\* So it is with the frames of a range.
LEMMA FramesApart ==
    ASSUME config \in Configs, NEW a \in Nat, OnFrame(config, a)
    PROVE  /\ OnFrame(config, a + config.step)
           /\ \A b \in Nat : OnFrame(config, b) /\ a < b => a + config.step <= b
<1>1. config.start \in Nat /\ config.step \in Nat \ {0} /\ config.start <= a
  BY ConfigsAssumption DEF OnFrame
<1> DEFINE n(t) == t - config.start
<1>2. n(a) \in Nat /\ n(a) % config.step = 0
  BY <1>1 DEF OnFrame
<1>3. /\ (n(a) + config.step) % config.step = 0
      /\ \A b \in Nat : b % config.step = 0 /\ n(a) < b => n(a) + config.step <= b
  BY <1>1, <1>2, MultiplesApart
<1>4. n(a + config.step) = n(a) + config.step
  BY <1>1
<1>5. OnFrame(config, a + config.step)
  BY <1>1, <1>3, <1>4 DEF OnFrame
<1>6. ASSUME NEW b \in Nat, OnFrame(config, b), a < b
      PROVE  a + config.step <= b
  <2>1. n(b) \in Nat /\ n(b) % config.step = 0 /\ n(a) < n(b)
    BY <1>1, <1>6 DEF OnFrame
  <2>2. n(a) + config.step <= n(b)
    BY <1>3, <2>1
  <2> QED BY <1>1, <2>2
<1> QED BY <1>5, <1>6

\* A frame is on a frame, or is the end of the range.
LEMMA FramesOnFrame ==
    ASSUME config \in Configs, NEW t \in Frames
    PROVE  /\ t \in Nat /\ config.start <= t /\ t <= config.end
           /\ OnFrame(config, t) \/ t = config.end
BY ConfigsAssumption DEF Frames, OnFrame

\* What the hypothesis of keyed data says of the validity of one object.
KeyedObject(o) ==
    /\ config \in Configs
    /\ validity[o] \in [Times -> [start : Times, end : Times]]
    /\ IsKeyed(validity[o], config)

\* A stretch holds the time it is asked for, and is the same at all its times.
LEMMA Stretches ==
    ASSUME NEW o, KeyedObject(o), NEW t \in Times
    PROVE  /\ validity[o][t].start \in Nat /\ validity[o][t].end \in Nat
           /\ validity[o][t].start <= t /\ t <= validity[o][t].end
           /\ validity[o][t].end <= Horizon
           /\ \A s \in Times : validity[o][t].start <= s /\ s <= validity[o][t].end =>
                                  SameData(o, t, s)
<1> DEFINE i == validity[o][t]
<1>1. i \in [start : Times, end : Times]
  BY DEF KeyedObject
<1>2. t \in i.start..i.end /\ \A s \in i.start..i.end : validity[o][s] = i
  BY DEF KeyedObject, IsKeyed
<1>3. i.start \in Nat /\ i.end \in Nat /\ i.end <= Horizon /\ Times \subseteq Nat
  BY <1>1, HorizonAssumption DEF Times
<1> QED BY <1>2, <1>3 DEF SameData

\* A long stretch that begins in the range begins on a frame.
LEMMA LongStretch ==
    ASSUME NEW o, KeyedObject(o), NEW t \in Times, config.start <= t,
           validity[o][t].start < validity[o][t].end, config.start <= validity[o][t].start
    PROVE  OnFrame(config, validity[o][t].start)
<1>1. /\ config.start \in Nat /\ t \in Nat
  BY ConfigsAssumption, HorizonAssumption DEF KeyedObject, Times
<1>2. /\ validity[o][t].start \in Nat /\ validity[o][t].end \in Nat /\ t <= validity[o][t].end
  BY Stretches
<1>3. ~ (validity[o][t].start < config.start) /\ config.start <= validity[o][t].end
  BY <1>1, <1>2
<1> QED BY <1>3 DEF KeyedObject, IsKeyed

\* After a stretch another one begins.
LEMMA StretchAfter ==
    ASSUME NEW o, KeyedObject(o), NEW t \in Times, validity[o][t].end # Horizon
    PROVE  /\ validity[o][t].end + 1 \in Times
           /\ validity[o][validity[o][t].end + 1].start = validity[o][t].end + 1
<1> DEFINE e == validity[o][t].end
           i == validity[o][e + 1]
<1>1. e \in Nat /\ t \in Nat /\ t <= e /\ e <= Horizon /\ e \in Times /\ e + 1 \in Times
      /\ validity[o][t].start <= t
      /\ validity[o][t].start \in Nat
  BY Stretches, HorizonAssumption DEF Times
<1>2. i.start \in Nat /\ i.start <= e + 1 /\ i.end \in Nat /\ e + 1 <= i.end
  BY <1>1, Stretches
<1>3. validity[o][e] = validity[o][t]
  BY <1>1, Stretches DEF SameData
<1>4. ASSUME i.start <= e
      PROVE  FALSE
  <2>1. SameData(o, e + 1, e)
    BY <1>1, <1>2, <1>4, Stretches
  <2> QED BY <1>1, <1>2, <1>3, <2>1 DEF SameData
<1> QED BY <1>1, <1>2, <1>4

\* A long stretch that begins on a frame lasts for a step, less one tick at most.
LEMMA LongStretchLasts ==
    ASSUME NEW o, KeyedObject(o), NEW t \in Times, t + config.step <= Horizon + 1,
           validity[o][t].start = t, t < validity[o][t].end, OnFrame(config, t)
    PROVE  t + config.step <= validity[o][t].end + 1
<1> DEFINE e == validity[o][t].end
<1>1. /\ e \in Nat /\ e <= Horizon /\ t \in Nat /\ e \in Times
      /\ config.start \in Nat /\ config.step \in Nat \ {0} /\ config.start <= t
      /\ config \in Configs /\ Horizon \in Nat
  BY Stretches, ConfigsAssumption, HorizonAssumption DEF KeyedObject, Times, OnFrame
<1>2. OnFrame(config, e) \/ e = Horizon \/ e + 1 < validity[o][e + 1].end
  BY <1>1 DEF KeyedObject, IsKeyed
<1>3. CASE OnFrame(config, e)
  BY <1>1, <1>3, FramesApart
<1>4. CASE e = Horizon
  BY <1>1, <1>4
<1>5. CASE e # Horizon /\ e + 1 < validity[o][e + 1].end
  <2>1. e + 1 \in Times /\ validity[o][e + 1].start = e + 1
    BY <1>5, StretchAfter
  <2>2. OnFrame(config, e + 1)
    BY <1>1, <1>5, <2>1, LongStretch
  <2> QED BY <1>1, <2>2, FramesApart
<1> QED BY <1>2, <1>3, <1>4, <1>5

\* If the next frame's stretch begins after a sample, it begins on a frame, and no
\* frame is between.
LEMMA StretchAhead ==
    ASSUME NEW o, KeyedObject(o), NEW d \in config.start..config.end, Place(o, d),
           d < config.end, d < validity[o][d + config.step].start
    PROVE  /\ OnFrame(config, validity[o][d + config.step].start)
           /\ \A t \in Frames : d < t /\ t < config.end =>
                 validity[o][d + config.step].start <= t
<1> DEFINE n == d + config.step
           i == validity[o][n]
<1>1. /\ config \in Configs /\ config.step \in Nat \ {0} /\ config.start \in Nat
      /\ config.end \in Nat /\ d \in Nat /\ config.start <= d
      /\ n \in Times /\ n \in Nat /\ d \in Times /\ n <= Horizon /\ d + 1 \in Times
  <2>1. /\ config \in Configs /\ config.step \in Nat \ {0} /\ config.start \in Nat
        /\ config.end \in Nat /\ config.end + config.step <= Horizon
    BY ConfigsAssumption DEF KeyedObject
  <2> QED BY <2>1, HorizonAssumption DEF Times
<1>2. i.start \in Nat /\ i.end \in Nat /\ i.start <= n /\ n <= i.end
  BY <1>1, Stretches
<1>3. CASE OnFrame(config, d)
  <2>1. OnFrame(config, n)
    BY <1>1, <1>3, FramesApart
  <2>2. OnFrame(config, i.start)
    <3>1. CASE i.start < i.end
      BY <1>1, <1>2, <3>1, LongStretch
    <3>2. CASE ~ (i.start < i.end)
      <4>1. i.start = n
        BY <1>1, <1>2, <3>2
      <4> QED BY <2>1, <4>1
    <3> QED BY <3>1, <3>2
  <2>3. ASSUME NEW t \in Frames, d < t, t < config.end
        PROVE  i.start <= t
    <3>1. t \in Nat /\ OnFrame(config, t)
      BY <1>1, <2>3, FramesOnFrame
    <3>2. n <= t
      BY <1>1, <1>3, <2>3, <3>1, FramesApart
    <3> QED BY <1>1, <1>2, <3>1, <3>2
  <2> QED BY <2>2, <2>3
<1>4. CASE validity[o][d].end = d /\ d + 1 < validity[o][d + 1].end
  <2>1. validity[o][d + 1].start = d + 1
    <3>1. validity[o][d].end # Horizon
      BY <1>1, <1>4
    <3> QED BY <1>1, <1>4, <3>1, StretchAfter
  <2>2. OnFrame(config, d + 1)
    BY <1>1, <1>4, <2>1, LongStretch
  <2>3. d + 1 + config.step <= validity[o][d + 1].end + 1
    <3>1. (d + 1) + config.step <= Horizon + 1
      BY <1>1, HorizonAssumption
    <3> QED BY <1>1, <1>4, <2>1, <2>2, <3>1, LongStretchLasts
  <2>4. validity[o][d + 1].end \in Nat
    BY <1>1, Stretches
  <2>5. SameData(o, d + 1, n)
    BY <1>1, <2>1, <2>3, <2>4, Stretches
  <2>6. i.start = d + 1
    BY <2>1, <2>5 DEF SameData
  <2>7. \A t \in Frames : d < t => d + 1 <= t
    BY <1>1, FramesOnFrame
  <2> QED BY <2>2, <2>6, <2>7
<1>5. OnFrame(config, d) \/ (validity[o][d].end = d /\ d + 1 < validity[o][d + 1].end)
  BY <1>1 DEF Place
<1> QED BY <1>3, <1>4, <1>5
\* The next sample is in its place, and USD interpolates between the two what the
\* frames between them have; and if there is none, the stretch lasts to the end.
LEMMA NextSampleLinks ==
    ASSUME NEW o, KeyedObject(o), NEW d \in config.start..config.end, Place(o, d)
    PROVE  IF NextSample(o, d) = Never
           THEN \A t \in Frames : d < t => SameData(o, d, t)
           ELSE Place(o, NextSample(o, d)) /\ Linked(o, d, NextSample(o, d))
<1> DEFINE n == d + config.step
           i == validity[o][n]
           c == Candidate(o, d)
<1>1. /\ config \in Configs /\ config.step \in Nat \ {0} /\ config.start \in Nat
      /\ config.end \in Nat /\ config.end + config.step <= Horizon
  BY ConfigsAssumption DEF KeyedObject
<1>2. /\ d \in Nat /\ config.start <= d /\ d <= config.end /\ n \in Nat /\ n <= Horizon
      /\ d \in Times /\ n \in Times /\ config.end \in Times
  BY <1>1, HorizonAssumption DEF Times
<1>3. /\ i.start \in Nat /\ i.end \in Nat /\ i.start <= n /\ n <= i.end
      /\ \A s \in Times : i.start <= s /\ s <= i.end => SameData(o, n, s)
  BY <1>2, Stretches
<1>4. /\ c = IF i.end < config.end /\ d = i.start THEN i.end
             ELSE IF i.start > config.end THEN config.end ELSE i.start
      /\ c \in Nat
  BY <1>1, <1>2, <1>3 DEF Candidate
<1>5. NextSample(o, d) = IF d < c THEN c ELSE Never
  BY <1>2, <1>4 DEF NextSample
<1>6. \A t \in Frames : t \in Nat /\ t <= config.end /\ t \in Times
  BY <1>1, HorizonAssumption, FramesOnFrame DEF Times
<1>7. CASE d = config.end
  <2>1. NextSample(o, d) = Never
    BY <1>1, <1>2, <1>3, <1>4, <1>5, <1>7
  <2> QED BY <1>2, <1>6, <1>7, <2>1
<1>8. CASE d < config.end /\ i.start <= d /\ config.end <= i.end
  <2>1. NextSample(o, d) = Never
    BY <1>1, <1>2, <1>3, <1>4, <1>5, <1>8
  <2>2. \A t \in Frames : d < t => SameData(o, n, d) /\ SameData(o, n, t)
    BY <1>1, <1>2, <1>3, <1>6, <1>8
  <2> QED BY <2>1, <2>2 DEF SameData
<1>9. CASE d < config.end /\ i.start <= d /\ i.end < config.end
  <2>1. SameData(o, n, d)
    BY <1>1, <1>2, <1>3, <1>9
  <2>2. validity[o][d] = i
    BY <2>1 DEF SameData
  <2>3. i.start = d
    BY <1>1, <1>2, <1>3, <1>9, <2>2 DEF Place
  <2>4. c = i.end /\ d < c
    BY <1>1, <1>2, <1>3, <1>4, <1>9, <2>3
  <2>5. NextSample(o, d) = c /\ c \in Times /\ c # Never
    BY <1>1, <1>2, <1>3, <1>4, <1>5, <1>9, <2>4, HorizonAssumption, NeverAssumption DEF Times
  <2>6. SameData(o, n, c)
    BY <1>2, <1>3, <2>3, <2>4, <2>5
  <2>7. \A t \in Frames : d < t /\ t < c => SameData(o, n, t)
    BY <1>2, <1>3, <1>6, <2>3, <2>4
  <2>8. Linked(o, d, c)
    BY <2>1, <2>6, <2>7 DEF Linked, SameData
  <2>9. OnFrame(config, c) \/ c + 1 < validity[o][c + 1].end
    <3>1. /\ i.start < i.end /\ config.start <= i.end /\ i.end # Horizon
      BY <1>1, <1>2, <1>3, <1>9, <2>3, <2>4
    <3> QED BY <1>2, <2>4, <3>1 DEF KeyedObject, IsKeyed
  <2>10. validity[o][c].end = c
    BY <2>4, <2>6 DEF SameData
  <2>11. Place(o, c)
    BY <2>9, <2>10 DEF Place
  <2> QED BY <2>5, <2>8, <2>11
<1>10. CASE d < config.end /\ d < i.start
  <2>1. /\ OnFrame(config, i.start)
        /\ \A t \in Frames : d < t /\ t < config.end => i.start <= t
    BY <1>10, StretchAhead
  <2>2. /\ c = IF i.start > config.end THEN config.end ELSE i.start
        /\ d < c /\ c <= i.start /\ c <= config.end
    BY <1>1, <1>2, <1>3, <1>4, <1>10
  <2>3. NextSample(o, d) = c /\ c # Never
    BY <1>4, <1>5, <2>2, NeverAssumption
  <2>4. Linked(o, d, c)
    BY <1>1, <1>3, <1>4, <1>6, <2>1, <2>2 DEF Linked
  <2>5. Place(o, c)
    <3>1. CASE c = config.end
      <4>1. config.end <= validity[o][c].end
        BY <1>2, <3>1, Stretches
      <4> QED BY <3>1, <4>1 DEF Place
    <3>2. CASE c = i.start
      <4>1. c \in Times /\ SameData(o, n, c)
        BY <1>2, <1>3, <3>2, HorizonAssumption DEF Times
      <4> QED BY <2>1, <3>2, <4>1 DEF Place, SameData
    <3> QED BY <2>2, <3>1, <3>2
  <2> QED BY <2>3, <2>4, <2>5
<1> QED BY <1>1, <1>2, <1>3, <1>7, <1>8, <1>9, <1>10

\* The first sample is in its place, and frames before it have its data.
LEMMA FirstSampleFits ==
    ASSUME NEW o, KeyedObject(o), NEW d, d = FirstSample(config, validity[o])
    PROVE  /\ d # Never /\ Place(o, d)
           /\ \A t \in Frames : t < d => SameData(o, d, t)
<1> DEFINE s == config.start
           e == validity[o][s].end
<1>1. /\ config \in Configs /\ config.step \in Nat \ {0} /\ s \in Nat /\ s <= config.end
      /\ config.end \in Nat /\ config.end + config.step <= Horizon
  BY ConfigsAssumption DEF KeyedObject
<1>2. s \in Times /\ config.end \in Times
  BY <1>1, HorizonAssumption DEF Times
<1>3. /\ e \in Nat /\ s <= e /\ e <= Horizon
      /\ validity[o][s].start \in Nat /\ validity[o][s].start <= s
      /\ \A t \in Times : validity[o][s].start <= t /\ t <= e => SameData(o, s, t)
  BY <1>2, Stretches
<1>4. \A t \in Frames : t \in Nat /\ s <= t /\ t <= config.end /\ t \in Times
  BY <1>1, HorizonAssumption, FramesOnFrame DEF Times
<1>5. OnFrame(config, s)
  <2>1. s - s = 0 /\ 0 % config.step = 0
    BY <1>1, SMT
  <2> QED BY <1>1, <2>1 DEF OnFrame
<1>6. CASE s < e /\ e < config.end
  <2>1. d = e /\ d # Never /\ e \in Times
    BY <1>1, <1>3, <1>6, HorizonAssumption, NeverAssumption DEF FirstSample, Times
  <2>2. SameData(o, s, e) /\ \A t \in Frames : t < d => SameData(o, s, t)
    BY <1>1, <1>3, <1>4, <1>6, <2>1
  <2>3. OnFrame(config, e) \/ e + 1 < validity[o][e + 1].end
    <3>1. validity[o][s].start < e /\ config.start <= e /\ e # Horizon
      BY <1>1, <1>3, <1>6
    <3> QED BY <1>2, <3>1 DEF KeyedObject, IsKeyed
  <2>4. validity[o][e].end = e
    BY <2>2 DEF SameData
  <2>5. Place(o, d)
    BY <2>1, <2>3, <2>4 DEF Place
  <2> QED BY <2>1, <2>2, <2>5 DEF SameData
<1>7. CASE ~ (s < e /\ e < config.end)
  <2>1. d = s /\ d # Never
    BY <1>1, <1>7, NeverAssumption DEF FirstSample
  <2>2. e = s \/ config.end <= e
    BY <1>1, <1>3, <1>7
  <2> QED BY <1>1, <1>4, <1>5, <2>1, <2>2 DEF Place
<1> QED BY <1>6, <1>7

\* All data is keyed.
LEMMA AllKeyed ==
    ASSUME KeyedData, config \in Configs, validity \in Validities, NEW o \in Objects
    PROVE  KeyedObject(o)
BY ValiditiesAssumption DEF KeyedObject, KeyedData

LEMMA InitExact == KeyedData /\ Init => ExactInv
<1> SUFFICES ASSUME KeyedData, Init PROVE ExactInv
  OBVIOUS
<1>1. \A o \in Objects : KeyedObject(o)
  BY AllKeyed DEF Init
<1>2. phase # "done"
  BY DEF Init
<1>3. ASSUME NEW o \in Objects
      PROVE  ExactSoFar(o) /\ Place(o, due[o])
  <2>1. due[o] = FirstSample(config, validity[o]) /\ samples[o] = {}
    BY DEF Init
  <2>2. /\ due[o] # Never /\ Place(o, due[o])
        /\ \A t \in Frames : t < due[o] => SameData(o, due[o], t)
    BY <1>1, <2>1, FirstSampleFits
  <2> QED BY <2>1, <2>2 DEF ExactSoFar
<1> QED BY <1>2, <1>3 DEF ExactInv

\* Of an object that is not exported nothing changes.
LEMMA OthersStayExact ==
    ASSUME ExactInv, NEW o \in Objects, UNCHANGED <<config, validity, due[o], samples[o]>>
    PROVE  ExactSoFar(o)' /\ (due'[o] # Never => Place(o, due[o])')
<1>1. Frames' = Frames
  BY DEF Frames
<1>2. \A s, t : SameData(o, s, t)' <=> SameData(o, s, t)
  BY DEF SameData
<1>3. \A t : IsExact(o, t)' <=> IsExact(o, t)
  BY <1>2 DEF IsExact
<1>4. \A m : Continues(o, m)' <=> Continues(o, m)
  BY <1>1, <1>2 DEF Continues, Linked
<1>5. Place(o, due[o])' <=> Place(o, due[o])
  BY DEF Place, OnFrame
<1> QED BY <1>1, <1>2, <1>3, <1>4, <1>5 DEF ExactInv, ExactSoFar

\* A sample after all others makes the frames up to it exact, if those since the
\* last one have the data of both.
LEMMA SampleAdded ==
    ASSUME config \in Configs, NEW o, NEW d \in config.start..config.end, due[o] = d, d # Never,
           samples[o] \subseteq config.start..config.end, \A r \in samples[o] : r < d,
           ExactSoFar(o), samples'[o] = samples[o] \union {d}, UNCHANGED <<config, validity>>
    PROVE  \A t \in Frames : t <= d => IsExact(o, t)'
<1>1. /\ d \in Nat /\ \A r \in samples[o] : r \in Nat
      /\ \A t \in Frames : t \in Nat
  BY ConfigsAssumption DEF Frames
<1>2. \A s, t : SameData(o, s, t)' <=> SameData(o, s, t)
  BY DEF SameData
<1> SUFFICES ASSUME NEW t \in Frames, t <= d
             PROVE  IsExact(o, t)'
  OBVIOUS
<1> DEFINE before == {s \in samples'[o] : s <= t}
           after == {s \in samples'[o] : s >= t}
<1>3. SUFFICES
        /\ before # {} => \E s \in before : SameData(o, s, t) /\ \A r \in before : r <= s
        /\ after # {} => \E s \in after : SameData(o, s, t) /\ \A r \in after : r >= s
  BY <1>2 DEF IsExact
<1>4. CASE t = d
  <2>1. d \in before /\ d \in after /\ SameData(o, d, t)
    BY <1>1, <1>4 DEF SameData
  <2>2. (\A r \in before : r <= d) /\ \A r \in after : r >= d
    BY <1>1, <1>4
  <2> QED BY <2>1, <2>2
<1>5. CASE t < d /\ \E m \in samples[o] : t <= m
  <2>1. PICK m \in samples[o] : t <= m
    BY <1>5
  <2>2. IsExact(o, t)
    BY <2>1 DEF ExactSoFar
  <2> DEFINE before1 == {s \in samples[o] : s <= t}
             after1 == {s \in samples[o] : s >= t}
  <2>3. before = before1
    BY <1>1, <1>5
  <2>4. PICK s \in after1 : SameData(o, s, t) /\ \A r \in after1 : r >= s
    <3>1. m \in after1
      BY <1>1, <2>1
    <3> QED BY <2>2, <3>1 DEF IsExact
  <2>5. s \in after /\ \A r \in after : r >= s
    BY <1>1, <2>4
  <2>6. before1 # {} => \E r \in before1 : SameData(o, r, t) /\ \A p \in before1 : p <= r
    BY <2>2 DEF IsExact
  <2> QED BY <2>3, <2>4, <2>5, <2>6
<1>6. CASE t < d /\ samples[o] # {} /\ \A m \in samples[o] : ~ (t <= m)
  <2>1. PICK m \in samples[o] : (\A r \in samples[o] : r <= m) /\ Continues(o, m)
    BY <1>6 DEF ExactSoFar
  <2>2. SameData(o, m, t) /\ SameData(o, d, t)
    BY <1>1, <1>6, <2>1 DEF Continues, Linked
  <2>3. m \in before /\ \A r \in before : r <= m
    BY <1>1, <1>6, <2>1
  <2>4. d \in after /\ \A r \in after : r >= d
    BY <1>1, <1>6
  <2> QED BY <2>2, <2>3, <2>4
<1>7. CASE t < d /\ samples[o] = {}
  <2>1. SameData(o, d, t)
    BY <1>7 DEF ExactSoFar
  <2>2. before = {} /\ d \in after /\ \A r \in after : r >= d
    BY <1>1, <1>7
  <2> QED BY <2>1, <2>2
<1> QED BY <1>1, <1>4, <1>5, <1>6, <1>7

\* Exporting an object keeps what is written so far exact.
LEMMA ObjectStepExact ==
    ASSUME KeyedData, IInv, ExactInv, NEW q \in Objects, ExportObject(q), NEW d, d = due[q]
    PROVE  ExactInv'
<1>1. /\ config \in Configs /\ validity \in Validities /\ d # Never
      /\ d \in config.start..config.end /\ samples[q] \subseteq config.start..config.end
  BY DEF IInv, TypeOK, ExportObject
<1>2. /\ UNCHANGED <<config, validity, framesLeft, phase>>
      /\ samples'[q] = samples[q] \union {d} /\ due'[q] = NextSample(q, d)
      /\ \A o \in Objects \ {q} : due'[o] = due[o] /\ samples'[o] = samples[o]
  BY DEF IInv, TypeOK, ExportObject
<1>3. \A r \in samples[q] : r < d
  BY <1>1 DEF IInv, OneGoPerTime
<1>4. \A t \in Frames : t <= d => IsExact(q, t)'
  BY <1>1, <1>2, <1>3, SampleAdded DEF ExactInv
<1>5. IF NextSample(q, d) = Never
      THEN \A t \in Frames : d < t => SameData(q, d, t)
      ELSE Place(q, NextSample(q, d)) /\ Linked(q, d, NextSample(q, d))
  BY <1>1, AllKeyed, NextSampleLinks DEF ExactInv
<1>6. /\ Frames' = Frames
      /\ \A s, t : SameData(q, s, t)' <=> SameData(q, s, t)
  BY <1>2 DEF Frames, SameData
<1>7. Continues(q, d)'
  BY <1>2, <1>5, <1>6 DEF Continues, Linked
<1>8. \A r \in samples'[q] : r <= d
  BY <1>1, <1>2, <1>3, RangeInTimes
<1>9. ExactSoFar(q)'
  <2>1. ASSUME NEW m \in samples'[q], NEW t \in Frames, t <= m
        PROVE  IsExact(q, t)'
    <3>1. m \in Nat /\ t \in Nat /\ d \in Nat /\ m <= d
      BY <1>1, <1>2, <1>8, RangeInTimes, FramesOnFrame
    <3> QED BY <1>4, <2>1, <3>1
  <2>2. d \in samples'[q]
    BY <1>2
  <2> QED BY <1>6, <1>7, <1>8, <2>1, <2>2 DEF ExactSoFar
<1>10. due'[q] # Never => Place(q, due[q])'
  BY <1>2, <1>5 DEF Place, OnFrame
<1>11. \A o \in Objects \ {q} : ExactSoFar(o)' /\ (due'[o] # Never => Place(o, due[o])')
  BY <1>2, OthersStayExact
<1>12. phase' # "done"
  BY <1>1, <1>2 DEF ExactInv
<1> QED BY <1>9, <1>10, <1>11, <1>12 DEF ExactInv

LEMMA NextExact == KeyedData /\ IInv /\ ExactInv /\ [Next]_vars => ExactInv'
<1> SUFFICES ASSUME KeyedData, IInv, ExactInv, [Next]_vars PROVE ExactInv'
  OBVIOUS
<1>1. CASE \E o \in Objects : ExportObject(o)
  BY <1>1, ObjectStepExact
<1>2. CASE (\E t \in framesLeft : ExportTransforms(t)) \/ PostExport \/ UNCHANGED vars
  <2>1. UNCHANGED <<config, validity, due, samples>>
    BY <1>2 DEF ExportTransforms, PostExport, vars
  <2>2. \A o \in Objects : ExactSoFar(o)' /\ (due'[o] # Never => Place(o, due[o])')
    BY <2>1, OthersStayExact
  <2>3. phase' = "done" => \A o \in Objects : due'[o] = Never
    BY <1>2 DEF ExportTransforms, PostExport, vars, ExactInv
  <2> QED BY <2>2, <2>3 DEF ExactInv
<1> QED BY <1>1, <1>2 DEF Next

\* If data is keyed, the animation that USD interpolates from the samples has, at every
\* frame, the data the object had: for any objects, ranges, steps and keys, also when
\* the range ends between two frames or stretches begin before it.
THEOREM KeyedFramesAreExact ==
    ASSUME KeyedData
    PROVE  Spec => []FramesAreExact
<1>1. Init => IInv /\ ExactInv
  BY InitInv, InitExact
<1>2. IInv /\ ExactInv /\ [Next]_vars => (IInv /\ ExactInv)'
  BY NextInv, NextExact
<1>3. IInv /\ ExactInv => FramesAreExact
  <2> SUFFICES ASSUME IInv, ExactInv, phase = "done", NEW o \in Objects, NEW t \in Frames
               PROVE  samples[o] # {} /\ IsExact(o, t)
    BY DEF FramesAreExact
  <2>1. ExactSoFar(o) /\ due[o] = Never
    BY DEF ExactInv
  <2>2. PICK m \in samples[o] : (\A r \in samples[o] : r <= m) /\ Continues(o, m)
    BY <2>1 DEF ExactSoFar
  <2>3. t \in Nat /\ \A r \in samples[o] : r \in Nat
    BY RangeInTimes, FramesOnFrame DEF IInv, TypeOK
  <2>4. CASE t <= m
    BY <2>1, <2>4 DEF ExactSoFar
  <2>5. CASE ~ (t <= m)
    <3>1. SameData(o, m, t)
      BY <2>1, <2>2, <2>3, <2>5 DEF Continues
    <3>2. m <= t /\ \A r \in samples[o] : r <= t /\ ~ (r >= t)
      BY <2>2, <2>3, <2>5
    <3> QED BY <2>2, <3>1, <3>2 DEF IsExact
  <2> QED BY <2>2, <2>4, <2>5
<1> QED BY <1>1, <1>2, <1>3, PTL DEF Spec
=============================================================================
