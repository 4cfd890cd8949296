----------------------- MODULE ProjectionRunnerProofs -----------------------
(***************************************************************************)
(* Proofs about ProjectionRunner and ProjectionRebuilder for any           *)
(* processes, projections, keys, events, faults and bounds.                *)
(*                                                                         *)
(* Whoever works on a projection is alone with it (WorksAlone), and knows  *)
(* at each of its steps how states, index and checkpoint relate (Knows):   *)
(* that is what a crash at that step leaves.  When nobody works on it, it  *)
(* is as its checkpoint says, or as the damage that was done to it allows  *)
(* (AtRest).  While rebuild_all waits, a projection whose task has ended   *)
(* well stays rebuilt whatever others do to it, or is damaged by them      *)
(* (Served).                                                               *)
(***************************************************************************)
EXTENDS ProjectionRebuilder, TLAPS, SequenceTheorems

Application == [at : Nat, related : SUBSET Nat]

-----------------------------------------------------------------------------
(* What the states of a projection are made of *)

\* The positions of the events that were applied to a state, their order, and that none
\* was applied twice.
Ats(s) == {s[i].at : i \in DOMAIN s}

Ordered(s) == \A a, b \in DOMAIN s : a < b => s[a].at < s[b].at \/ (s[a].at = 0 /\ s[b].at = 0)

Once(s) == \A a, b \in DOMAIN s : s[a].at = s[b].at => a = b

\* S is made of the events up to `last`.
Made(S, events, j, last) == \A k \in Key : Ordered(S[k]) /\ Ats(S[k]) = MadeOf(events, j, k, last)

\* S has at most the first event, which does not count as processed yet.
Begun(S, events, j) == \A k \in Key : Ordered(S[k]) /\ Ats(S[k]) \subseteq MadeOf(events, j, k, 0)

\* No event up to `last` that will be needed is missing in S.
Complete(S, events, j, last) ==
  \A k \in Key : \A n \in 0 .. last : n \in MadeOf(events, j, k, Len(events) - 1) => n \in Ats(S[k])

Listing(S) == {k \in Key : S[k] # << >>}

\* S2 is S after the event at n: passed or applied.
After(S, S2, events, j, n) ==
  \/ S2 = S /\ \A k \in Key : ~IsOf(events[n + 1], j, k)
  \/ \E k \in Key, others \in SUBSET Nat :
       /\ IsOf(events[n + 1], j, k)
       /\ S2 = [S EXCEPT ![k] = IF events[n + 1].ends THEN << >> ELSE Append(S[k], Applied(n, others))]

\* `long` is `short` and more events.
Grown(long, short) ==
  /\ Len(short) <= Len(long)
  /\ \A i \in 1 .. Len(short) : long[i] = short[i]

\* MadeOf written out.
LEMMA MadeOfFacts ==
  ASSUME NEW events \in Seq(Event), NEW j, NEW k, NEW last \in Int, NEW n
  PROVE  n \in MadeOf(events, j, k, last) <=>
           /\ n \in Nat /\ n <= last /\ n < Len(events) /\ IsOf(events[n + 1], j, k)
           /\ \A m \in Nat : n <= m /\ m <= last /\ m < Len(events) /\ IsOf(events[m + 1], j, k)
                             => ~events[m + 1].ends
BY DEF MadeOf

\* What was made of the log up to a position stays the same when it grows.
LEMMA MadeOfStays ==
  ASSUME NEW events \in Seq(Event), NEW more \in Seq(Event), Grown(more, events),
         NEW j, NEW k, NEW last \in Int, last < Len(events)
  PROVE  MadeOf(more, j, k, last) = MadeOf(events, j, k, last)
<1>1. Len(events) \in Nat /\ Len(more) \in Nat /\ Len(events) <= Len(more)
  BY LenProperties DEF Grown
<1>2. \A m \in Nat : m <= last => m < Len(events) /\ m < Len(more) /\ more[m + 1] = events[m + 1]
  BY <1>1 DEF Grown
<1>3. ASSUME NEW n PROVE n \in MadeOf(more, j, k, last) <=> n \in MadeOf(events, j, k, last)
  <2> DEFINE In(l) == /\ n \in Nat /\ n <= last /\ n < Len(l) /\ IsOf(l[n + 1], j, k)
                      /\ \A m \in Nat : n <= m /\ m <= last /\ m < Len(l) /\ IsOf(l[m + 1], j, k)
                                        => ~l[m + 1].ends
  <2>1. In(more) <=> In(events)
    BY <1>2
  <2>2. (n \in MadeOf(more, j, k, last) <=> In(more)) /\ (n \in MadeOf(events, j, k, last) <=> In(events))
    BY MadeOfFacts
  <2> QED
    BY <2>1, <2>2
<1> QED
  BY <1>3

\* The first event may come.
LEMMA MadeOfFirst ==
  ASSUME NEW events \in Seq(Event), NEW more \in Seq(Event), Grown(more, events), NEW j, NEW k
  PROVE  MadeOf(events, j, k, 0) \subseteq MadeOf(more, j, k, 0)
<1>1. Len(events) \in Nat /\ Len(more) \in Nat /\ Len(events) <= Len(more)
  BY LenProperties DEF Grown
<1>2. CASE Len(events) = 0
  <2>1. \A n : n \notin MadeOf(events, j, k, 0)
    BY <1>2 DEF MadeOf
  <2> QED
    BY <2>1
<1>3. CASE 0 < Len(events)
  BY <1>3, MadeOfStays
<1> QED
  BY <1>1, <1>2, <1>3

\* What is made of more of the log has nothing before it that less of it has not.
LEMMA MadeOfShrinks ==
  ASSUME NEW events \in Seq(Event), NEW more \in Seq(Event), Grown(more, events), NEW j, NEW k,
         NEW last \in Nat, last < Len(events), NEW n \in 0 .. last,
         NEW end \in Int, last <= end, n \in MadeOf(more, j, k, end)
  PROVE  n \in MadeOf(events, j, k, last)
<1>1. Len(events) \in Nat /\ Len(more) \in Nat /\ Len(events) <= Len(more)
  BY LenProperties DEF Grown
<1>2. ASSUME NEW m \in Nat, m <= last
      PROVE  m < Len(events) /\ m < Len(more) /\ m <= end /\ more[m + 1] = events[m + 1]
  <2>1. m < Len(events) /\ m < Len(more) /\ m <= end
    BY <1>1, <1>2
  <2>2. m + 1 \in 1 .. Len(events)
    BY <1>1, <2>1
  <2> QED
    BY <2>1, <2>2 DEF Grown
<1>3. /\ n \in Nat /\ n < Len(more) /\ IsOf(more[n + 1], j, k)
      /\ \A m \in Nat : n <= m /\ m <= end /\ m < Len(more) /\ IsOf(more[m + 1], j, k)
                        => ~more[m + 1].ends
  BY MadeOfFacts
<1>4. /\ n <= last /\ n < Len(events) /\ IsOf(events[n + 1], j, k)
      /\ \A m \in Nat : n <= m /\ m <= last /\ m < Len(events) /\ IsOf(events[m + 1], j, k)
                        => ~events[m + 1].ends
  BY <1>2, <1>3
<1> QED
  BY <1>3, <1>4, MadeOfFacts

\* One event more.
LEMMA MadeOfNext ==
  ASSUME NEW events \in Seq(Event), NEW j, NEW k, NEW n \in Nat, n < Len(events)
  PROVE  /\ ~IsOf(events[n + 1], j, k) => MadeOf(events, j, k, n) = MadeOf(events, j, k, n - 1)
         /\ IsOf(events[n + 1], j, k) /\ events[n + 1].ends => MadeOf(events, j, k, n) = {}
         /\ IsOf(events[n + 1], j, k) /\ ~events[n + 1].ends =>
              MadeOf(events, j, k, n) = MadeOf(events, j, k, n - 1) \cup {n}
<1> DEFINE In(m, l) == /\ m \in Nat /\ m <= l /\ m < Len(events) /\ IsOf(events[m + 1], j, k)
                       /\ \A i \in Nat : m <= i /\ i <= l /\ i < Len(events) /\ IsOf(events[i + 1], j, k)
                                         => ~events[i + 1].ends
<1>1. \A m \in Nat : m <= n <=> m <= n - 1 \/ m = n
  OBVIOUS
<1>2. \A m : (m \in MadeOf(events, j, k, n) <=> In(m, n)) /\ (m \in MadeOf(events, j, k, n - 1) <=> In(m, n - 1))
  BY MadeOfFacts
<1>3. CASE ~IsOf(events[n + 1], j, k)
  <2>1. \A m : In(m, n) <=> In(m, n - 1)
    BY <1>1, <1>3
  <2> HIDE DEF In
  <2> QED
    BY <1>2, <1>3, <2>1
<1>4. CASE IsOf(events[n + 1], j, k) /\ events[n + 1].ends
  <2>1. \A m : ~In(m, n)
    BY <1>4
  <2> HIDE DEF In
  <2> QED
    BY <1>2, <1>4, <2>1
<1>5. CASE IsOf(events[n + 1], j, k) /\ ~events[n + 1].ends
  <2>1. \A m : In(m, n) <=> In(m, n - 1) \/ m = n
    BY <1>1, <1>5
  <2> HIDE DEF In
  <2> QED
    BY <1>2, <1>5, <2>1
<1> QED
  BY <1>3, <1>4, <1>5

\* Nothing is made of nothing.
LEMMA MadeOfNothing ==
  ASSUME NEW events \in Seq(Event), NEW j, NEW k
  PROVE  MadeOf(events, j, k, -1) = {}
BY MadeOfFacts

\* One application more.
LEMMA AtsOfAppend ==
  ASSUME NEW s \in Seq(Application), NEW n \in Nat, NEW others \in SUBSET Nat
  PROVE  LET t == Append(s, Applied(n, others)) IN
           /\ t \in Seq(Application) /\ t # << >>
           /\ Ats(t) = Ats(s) \cup {n}
           /\ Ordered(s) /\ (\A x \in Ats(s) : x < n \/ (x = 0 /\ n = 0)) => Ordered(t)
           /\ Once(s) /\ n \notin Ats(s) => Once(t)
<1> DEFINE app == Applied(n, others)
           t == Append(s, app)
           len == Len(s)
<1>1. app \in Application /\ app.at = n
  BY DEF Applied, Application
<1>2. len \in Nat /\ DOMAIN s = 1 .. len /\ \A i \in 1 .. len : s[i] \in Application
  BY LenProperties
<1>3. /\ t \in Seq(Application) /\ t # << >> /\ DOMAIN t = 1 .. len + 1
      /\ \A i \in 1 .. len : t[i] = s[i]
      /\ t[len + 1] = app
  BY <1>1, AppendProperties, LenProperties
<1> HIDE DEF app, t, len
<1>4. \A i \in 1 .. len + 1 : i \in 1 .. len \/ i = len + 1
  BY <1>2
<1>5. len + 1 \in 1 .. len + 1 /\ \A i \in 1 .. len : i \in 1 .. len + 1 /\ i < len + 1
  BY <1>2
<1>6. Ats(t) = Ats(s) \cup {n}
  BY <1>1, <1>2, <1>3, <1>4, <1>5 DEF Ats
<1>7. \A i \in 1 .. len : s[i].at \in Ats(s) /\ s[i].at \in Nat
  BY <1>2 DEF Ats, Application
<1>8. ASSUME Ordered(s), \A x \in Ats(s) : x < n \/ (x = 0 /\ n = 0)
      PROVE  Ordered(t)
  <2> SUFFICES ASSUME NEW a \in DOMAIN t, NEW b \in DOMAIN t, a < b
               PROVE  t[a].at < t[b].at \/ (t[a].at = 0 /\ t[b].at = 0)
    BY DEF Ordered
  <2>1. a \in 1 .. len
    BY <1>2, <1>3
  <2>2. CASE b \in 1 .. len
    BY <1>2, <1>3, <1>8, <2>1, <2>2 DEF Ordered
  <2>3. CASE b = len + 1
    BY <1>1, <1>3, <1>7, <1>8, <2>1, <2>3
  <2> QED
    BY <1>3, <1>4, <2>2, <2>3
<1>9. ASSUME Once(s), n \notin Ats(s)
      PROVE  Once(t)
  <2> SUFFICES ASSUME NEW a \in DOMAIN t, NEW b \in DOMAIN t, t[a].at = t[b].at
               PROVE  a = b
    BY DEF Once
  <2>1. CASE a \in 1 .. len /\ b \in 1 .. len
    BY <1>2, <1>3, <1>9, <2>1 DEF Once
  <2>2. CASE a = len + 1 \/ b = len + 1
    BY <1>1, <1>3, <1>4, <1>7, <1>9, <2>2
  <2> QED
    BY <1>3, <1>4, <2>1, <2>2
<1> QED
  BY <1>3, <1>6, <1>8, <1>9 DEF t, app

\* A state without applications.
LEMMA NothingApplied == Ats(<< >>) = {} /\ Ordered(<< >>) /\ Once(<< >>) /\ << >> \in Seq(Application)
BY DEF Ats, Ordered, Once

\* What an event does to one key.
LEMMA AfterOfKey ==
  ASSUME NEW S \in [Key -> Seq(Application)], NEW S2, NEW events \in Seq(Event), NEW j, NEW n \in Nat,
         After(S, S2, events, j, n), NEW k \in Key
  PROVE  /\ S2 \in [Key -> Seq(Application)]
         /\ ~IsOf(events[n + 1], j, k) => S2[k] = S[k]
         /\ IsOf(events[n + 1], j, k) /\ events[n + 1].ends => S2[k] = << >>
         /\ IsOf(events[n + 1], j, k) /\ ~events[n + 1].ends =>
              \E others \in SUBSET Nat : S2[k] = Append(S[k], Applied(n, others))
<1>1. CASE S2 = S /\ \A i \in Key : ~IsOf(events[n + 1], j, i)
  BY <1>1
<1>2. CASE \E i \in Key, others \in SUBSET Nat :
             /\ IsOf(events[n + 1], j, i)
             /\ S2 = [S EXCEPT ![i] = IF events[n + 1].ends THEN << >> ELSE Append(S[i], Applied(n, others))]
  <2>1. PICK i \in Key, others \in SUBSET Nat :
             /\ IsOf(events[n + 1], j, i)
             /\ S2 = [S EXCEPT ![i] = IF events[n + 1].ends THEN << >> ELSE Append(S[i], Applied(n, others))]
    BY <1>2
  <2>2. Append(S[i], Applied(n, others)) \in Seq(Application) /\ << >> \in Seq(Application)
    BY AtsOfAppend, NothingApplied
  <2>3. S2 \in [Key -> Seq(Application)]
    BY <2>1, <2>2
  <2>4. IsOf(events[n + 1], j, k) => k = i
    BY <2>1 DEF IsOf
  <2> QED
    BY <2>1, <2>3, <2>4
<1> QED
  BY <1>1, <1>2 DEF After

\* Applying the next event makes the states of one event more.
LEMMA AfterMade ==
  ASSUME NEW S \in [Key -> Seq(Application)], NEW S2, NEW events \in Seq(Event), NEW j,
         NEW n \in Nat, n < Len(events), After(S, S2, events, j, n),
         IF n > 0 THEN Made(S, events, j, n - 1) ELSE Begun(S, events, j)
  PROVE  Made(S2, events, j, n)
<1> SUFFICES ASSUME NEW k \in Key
             PROVE  Ordered(S2[k]) /\ Ats(S2[k]) = MadeOf(events, j, k, n)
  BY DEF Made
<1> DEFINE e == events[n + 1]
<1>1. /\ ~IsOf(e, j, k) => S2[k] = S[k] /\ MadeOf(events, j, k, n) = MadeOf(events, j, k, n - 1)
      /\ IsOf(e, j, k) /\ e.ends => S2[k] = << >> /\ MadeOf(events, j, k, n) = {}
      /\ IsOf(e, j, k) /\ ~e.ends =>
           /\ \E others \in SUBSET Nat : S2[k] = Append(S[k], Applied(n, others))
           /\ MadeOf(events, j, k, n) = MadeOf(events, j, k, n - 1) \cup {n}
  <2>1. /\ ~IsOf(e, j, k) => S2[k] = S[k]
        /\ IsOf(e, j, k) /\ e.ends => S2[k] = << >>
        /\ IsOf(e, j, k) /\ ~e.ends => \E others \in SUBSET Nat : S2[k] = Append(S[k], Applied(n, others))
    BY AfterOfKey, Zenon
  <2>2. /\ ~IsOf(e, j, k) => MadeOf(events, j, k, n) = MadeOf(events, j, k, n - 1)
        /\ IsOf(e, j, k) /\ e.ends => MadeOf(events, j, k, n) = {}
        /\ IsOf(e, j, k) /\ ~e.ends => MadeOf(events, j, k, n) = MadeOf(events, j, k, n - 1) \cup {n}
    BY MadeOfNext, Zenon
  <2> QED
    BY <2>1, <2>2
<1>2. /\ Ordered(S[k])
      /\ n > 0 => Ats(S[k]) = MadeOf(events, j, k, n - 1)
      /\ n = 0 => Ats(S[k]) \subseteq MadeOf(events, j, k, 0) /\ MadeOf(events, j, k, n - 1) = {}
  BY MadeOfNothing DEF Made, Begun
<1> HIDE DEF e
<1>3. \A x \in Ats(S[k]) : x < n \/ (x = 0 /\ n = 0)
  <2>1. CASE n > 0
    BY <1>2, <2>1, MadeOfFacts
  <2>2. CASE n = 0
    BY <1>2, <2>2, MadeOfFacts
  <2> QED
    BY <2>1, <2>2
<1>4. CASE ~IsOf(e, j, k)
  <2>1. CASE n > 0
    BY <1>1, <1>2, <1>4, <2>1
  <2>2. CASE n = 0
    BY <1>1, <1>2, <1>4, <2>2
  <2> QED
    BY <2>1, <2>2
<1>5. CASE IsOf(e, j, k) /\ e.ends
  BY <1>1, <1>5, NothingApplied
<1>6. CASE IsOf(e, j, k) /\ ~e.ends
  <2>1. PICK others \in SUBSET Nat : S2[k] = Append(S[k], Applied(n, others))
    BY <1>1, <1>6
  <2>2. Ordered(S2[k]) /\ Ats(S2[k]) = Ats(S[k]) \cup {n}
    BY <1>2, <1>3, <2>1, AtsOfAppend
  <2>3. CASE n > 0
    BY <1>1, <1>2, <1>6, <2>2, <2>3
  <2>4. CASE n = 0
    <3>1. MadeOf(events, j, k, 0) = {0}
      BY <1>1, <1>2, <1>6, <2>4
    <3> QED
      BY <1>2, <2>2, <2>4, <3>1
  <2> QED
    BY <2>2, <2>3, <2>4
<1> QED
  BY <1>4, <1>5, <1>6

\* It loses nothing that will be needed.
LEMMA AfterComplete ==
  ASSUME NEW S \in [Key -> Seq(Application)], NEW S2, NEW events \in Seq(Event), NEW j,
         NEW n \in Nat, n < Len(events), After(S, S2, events, j, n),
         n > 0 => Complete(S, events, j, n - 1)
  PROVE  Complete(S2, events, j, n)
<1> SUFFICES ASSUME NEW k \in Key, NEW m \in 0 .. n, m \in MadeOf(events, j, k, Len(events) - 1)
             PROVE  m \in Ats(S2[k])
  BY DEF Complete
<1> DEFINE e == events[n + 1]
<1>1. Len(events) \in Nat
  BY LenProperties
<1>2. /\ IsOf(events[m + 1], j, k) /\ ~(IsOf(e, j, k) /\ e.ends)
  <2>1. n <= Len(events) - 1 /\ m <= n
    BY <1>1
  <2> QED
    BY <1>1, <2>1, MadeOfFacts
<1>3. m < n => m \in Ats(S[k])
  <2>1. m < n => n > 0 /\ m \in 0 .. n - 1
    OBVIOUS
  <2> QED
    BY <2>1 DEF Complete
<1>4. CASE ~IsOf(e, j, k)
  <2>1. m < n
    BY <1>2, <1>4
  <2>2. S2[k] = S[k]
    BY <1>4, AfterOfKey, Zenon
  <2> QED
    BY <1>3, <2>1, <2>2
<1>5. CASE IsOf(e, j, k) /\ ~e.ends
  <2>1. PICK others \in SUBSET Nat : S2[k] = Append(S[k], Applied(n, others))
    BY <1>5, AfterOfKey
  <2>2. Ats(S2[k]) = Ats(S[k]) \cup {n}
    BY <2>1, AtsOfAppend
  <2> QED
    BY <1>3, <2>2
<1> QED
  BY <1>2, <1>4, <1>5

\* It is applied once, if it was not applied before.
LEMMA AfterOnce ==
  ASSUME NEW S \in [Key -> Seq(Application)], NEW S2, NEW events \in Seq(Event), NEW j,
         NEW n \in Nat, After(S, S2, events, j, n), NEW k \in Key
  PROVE  Once(S[k]) /\ n \notin Ats(S[k]) => Once(S2[k])
<1>1. /\ ~IsOf(events[n + 1], j, k) => S2[k] = S[k]
      /\ IsOf(events[n + 1], j, k) /\ events[n + 1].ends => S2[k] = << >>
      /\ IsOf(events[n + 1], j, k) /\ ~events[n + 1].ends =>
           \E others \in SUBSET Nat : S2[k] = Append(S[k], Applied(n, others))
  BY AfterOfKey, Zenon
<1>2. CASE S2[k] = S[k]
  BY <1>2
<1>3. CASE S2[k] = << >>
  BY <1>3, NothingApplied
<1>4. CASE \E others \in SUBSET Nat : S2[k] = Append(S[k], Applied(n, others))
  <2>1. PICK others \in SUBSET Nat : S2[k] = Append(S[k], Applied(n, others))
    BY <1>4
  <2> QED
    BY <2>1, AtsOfAppend
<1> QED
  BY <1>1, <1>2, <1>3, <1>4, Zenon

\* States made of the events up to `last` lack none of those.
LEMMA MadeComplete ==
  ASSUME NEW S, NEW events \in Seq(Event), NEW j, NEW last \in Nat, last < Len(events),
         Made(S, events, j, last)
  PROVE  Complete(S, events, j, last)
<1> SUFFICES ASSUME NEW k \in Key, NEW n \in 0 .. last, n \in MadeOf(events, j, k, Len(events) - 1)
             PROVE  n \in Ats(S[k])
  BY DEF Complete
<1>1. Len(events) - 1 \in Int /\ last <= Len(events) - 1 /\ Grown(events, events)
  BY LenProperties DEF Grown
<1>2. n \in MadeOf(events, j, k, last)
  BY <1>1, MadeOfShrinks
<1> QED
  BY <1>2 DEF Made

\* Both stay true when the log grows.
LEMMA MadeStays ==
  ASSUME NEW S, NEW events \in Seq(Event), NEW more \in Seq(Event), Grown(more, events), NEW j
  PROVE  /\ \A last \in Int : last < Len(events) /\ Made(S, events, j, last) => Made(S, more, j, last)
         /\ Begun(S, events, j) => Begun(S, more, j)
BY MadeOfStays, MadeOfFirst DEF Made, Begun

\* What is complete stays complete when the log grows.
LEMMA CompleteStays ==
  ASSUME NEW S, NEW events \in Seq(Event), NEW more \in Seq(Event), Grown(more, events), NEW j,
         NEW last \in Nat, last < Len(events), Complete(S, events, j, last)
  PROVE  Complete(S, more, j, last)
<1> SUFFICES ASSUME NEW k \in Key, NEW n \in 0 .. last, n \in MadeOf(more, j, k, Len(more) - 1)
             PROVE  n \in Ats(S[k])
  BY DEF Complete
<1> DEFINE end == Len(events) - 1
<1>1. /\ end \in Nat /\ end < Len(events) /\ n \in 0 .. end
      /\ Len(more) - 1 \in Int /\ end <= Len(more) - 1
  BY LenProperties DEF Grown
<1> HIDE DEF end
<1>2. n \in MadeOf(events, j, k, end)
  BY <1>1, MadeOfShrinks
<1> QED
  BY <1>2 DEF Complete, end

\* Fewer events, fewer that can be missing.
LEMMA CompleteUpTo ==
  ASSUME NEW S, NEW events \in Seq(Event), NEW j, NEW last \in Int, NEW c \in Int, c <= last, Complete(S, events, j, last)
  PROVE  Complete(S, events, j, c)
BY DEF Complete

-----------------------------------------------------------------------------
(* A projection nobody works on *)

\* Its states count as made of the events up to c, its checkpoint.
Counted(S, events, j, c) == IF c > 0 THEN Made(S, events, j, c) ELSE Begun(S, events, j)

\* Its files, with the damage done to it: the states are made of the events up to the
\* checkpoint, or damaged lack at least none of those.
Resting(S, L, c, d, events, j) ==
  /\ d \in {"none", "behind"} => L = Listing(S) /\ Counted(S, events, j, c)
  /\ d # "lost" /\ c > 0 => Complete(S, events, j, c)

AtRest(j) == Resting(states[j], listed[j], checkpoint[j], damage[j], log, j)

\* It stays so when the log grows.
LEMMA CountedStays ==
  ASSUME NEW S, NEW c \in Int, NEW events \in Seq(Event), NEW more \in Seq(Event),
         Grown(more, events), NEW j, c > 0 => c < Len(events), Counted(S, events, j, c)
  PROVE  Counted(S, more, j, c)
BY MadeStays DEF Counted

\* Files at rest stay so.
LEMMA RestingStays ==
  ASSUME NEW S, NEW L, NEW c \in Int, NEW d, NEW events \in Seq(Event), NEW more \in Seq(Event),
         Grown(more, events), NEW j, c > 0 => c < Len(events), Resting(S, L, c, d, events, j)
  PROVE  Resting(S, L, c, d, more, j)
<1>1. Counted(S, events, j, c) => Counted(S, more, j, c)
  BY CountedStays
<1>2. c > 0 /\ Complete(S, events, j, c) => Complete(S, more, j, c)
  BY CompleteStays
<1> QED
  BY <1>1, <1>2 DEF Resting

\* States made of the events up to the checkpoint, all listed, are at rest whatever
\* was done before.
LEMMA RestingMade ==
  ASSUME NEW S, NEW c \in Int, NEW d, NEW events \in Seq(Event), NEW j, c > 0 => c < Len(events),
         Counted(S, events, j, c)
  PROVE  Resting(S, Listing(S), c, d, events, j)
<1>1. c > 0 => c \in Nat /\ Made(S, events, j, c)
  BY DEF Counted
<1>2. c > 0 => Complete(S, events, j, c)
  BY <1>1, MadeComplete
<1> QED
  BY <1>2 DEF Resting

\* A projection without states.
Emptied == [k \in Key |-> << >>]

\* Without states and checkpoint, or with one at the start, it is at rest.
LEMMA RestingEmpty ==
  ASSUME NEW events \in Seq(Event), NEW j
  PROVE  /\ Begun(Emptied, events, j) /\ Emptied \in [Key -> Seq(Application)]
         /\ Listing(Emptied) = {}
         /\ \A c \in Int : \A d : c <= 0 => Resting(Emptied, {}, c, d, events, j)
<1>1. Begun(Emptied, events, j) /\ Emptied \in [Key -> Seq(Application)]
  BY NothingApplied DEF Begun, Emptied
<1>2. Listing(Emptied) = {}
  BY DEF Listing, Emptied
<1> QED
  BY <1>1, <1>2 DEF Resting, Counted

-----------------------------------------------------------------------------
(* The inductive invariant *)

Labels == {"idle", "crashed", "acquire", "unlink", "clear", "reset", "read", "start", "load", "save",
           "checkpoint", "reindex", "release"}

\* A process in a call has a projection; the others have what Return leaves them.
RunnerTypes ==
  /\ log \in Seq(Event)
  /\ states \in [Proj -> [Key -> Seq(Application)]]
  /\ listed \in [Proj -> SUBSET Key]
  /\ checkpoint \in [Proj -> Nat \cup {NoCheckpoint}]
  /\ lock \in [Proj -> Proc \cup {Free, Orphan}]
  /\ pc \in [Proc -> Labels]
  /\ run = [p \in Proc |-> run[p]]
  /\ \A p \in Proc : pc[p] # "idle" =>
       run[p] \in [op : {"rebuild", "process_events"}, proj : Proj, floor : Nat]
  /\ batch \in [Proc -> SUBSET Proj]
  /\ local \in [Proc -> [upto : Nat, next : Nat, last : Nat, state : Seq(Application)]]
  /\ result \in [Proc -> {"none", "ok", "error"}]
  /\ damage \in [Proj -> {"none", "behind", "repeats", "lost"}]
  /\ runs \in Nat

\* p is past the lock of j, or in a process_events on j.
Works(p, j) == Busy(p, j) /\ pc[p] \notin {"acquire", "unlink"}

\* The lock lets one rebuild in.  This is what a waiter that breaks the lock of a
\* living holder, or breaks one lock for another, takes away: see SafeLock.
RebuildsExclude == \A p, q \in Proc : \A j \in Proj : Inside(p, j) /\ Inside(q, j) => q = p

\* process_events runs alone.
ProcessingAlone ==
  \A p, q \in Proc :
    pc[p] \notin {"idle", "crashed"} /\ run[p].op = "process_events" /\ Busy(q, P(p)) => q = p

\* A call has its result from the end of process_events_internal on, and has locals
\* of it only inside.
ControlOf(p) ==
  /\ pc[p] \in {"acquire", "unlink", "clear", "reset", "reindex", "release"} => run[p].op = "rebuild"
  /\ pc[p] \in {"acquire", "unlink", "clear", "reset", "read", "start", "load", "save", "checkpoint"} =>
       result[p] = "none"
  /\ pc[p] \in {"reindex", "release"} => result[p] \in {"ok", "error"}
  /\ pc[p] \notin {"idle", "crashed"} => run[p].floor <= Len(log)
  /\ pc[p] \notin {"start", "load", "save", "checkpoint"} => local[p].next = 0

Control == \A p \in Proc : ControlOf(p)

CheckpointsInLog == \A j \in Proj : checkpoint[j] > 0 => checkpoint[j] < Len(log)

\* No event was applied twice, each with all related events there were up to `floor`.
LookedUp(s, events, k, floor) ==
  \A i \in DOMAIN s : \A n \in 0 .. floor - 1 : events[n + 1].key = k => n \in s[i].related

Fresh(S, events, j, floor) ==
  \A k \in Key : Once(S[k]) /\ (j \in Related => LookedUp(S[k], events, k, floor))

\* p has counted an event as processed.
Done(p) == At(p) > 0 \/ local[p].last > 0

\* In the loop of process_events_internal: where the checkpoint in its hands is, and
\* what it has made.
InLoop(p, j) ==
  /\ At(p) <= local[p].upto /\ local[p].upto <= Len(log)
  /\ \/ local[p].last = checkpoint[j] /\ At(p) <= local[p].last + 1
     \/ At(p) > 0 /\ local[p].last = At(p) - 1 /\ checkpoint[j] <= local[p].last
     \/ At(p) = 0 /\ local[p].last = 0 /\ checkpoint[j] <= 0
  /\ local[p].last > 0 => local[p].last < local[p].upto
  /\ damage[j] \in {"none", "behind"} \/ run[p].op = "rebuild" =>
       IF Done(p) THEN Made(states[j], log, j, local[p].last) ELSE Begun(states[j], log, j)

RebuildInLoop(p, j) ==
  /\ checkpoint[j] = 0 /\ run[p].floor <= local[p].upto
  /\ Fresh(states[j], log, j, run[p].floor)
  /\ At(p) = 0 => states[j] = Emptied

ProcessingInLoop(p, j) ==
  /\ damage[j] # "lost" /\ Done(p) => Complete(states[j], log, j, local[p].last)
  /\ damage[j] \in {"none", "behind"} /\ j \notin batch[p] => IndexIsExact(j)

\* About to save the new state of the key of the event it looks at.
Saving(p, j) ==
  LET n == At(p) IN
  /\ n < local[p].upto /\ ~Processed(local[p].last, n) /\ Matched(j, n) /\ KeyOf(n) \in Key
  /\ \E others \in SUBSET Nat :
       /\ local[p].state = IF log[n + 1].ends THEN << >>
                           ELSE Append(states[j][KeyOf(n)], Applied(n, others))
       /\ run[p].op = "rebuild" /\ j \in Related =>
            \A m \in 0 .. run[p].floor - 1 : KeyOf(m) = KeyOf(n) => m \in others

\* A rebuild that has applied all events.
Rebuilt(p, j) ==
  /\ Counted(states[j], log, j, checkpoint[j]) /\ Fresh(states[j], log, j, run[p].floor)
  /\ run[p].floor > 1 => checkpoint[j] >= run[p].floor - 1
  /\ checkpoint[j] # NoCheckpoint

\* One that failed.
Failed(j) == AtRest(j) /\ damage[j] # "none"

\* What a process that works on j knows of it.
Knows(p, j) ==
  /\ pc[p] = "clear" => AtRest(j)
  /\ pc[p] = "reset" => states[j] = Emptied /\ listed[j] = {}
  /\ pc[p] \in {"read", "start"} =>
       IF run[p].op = "rebuild" THEN states[j] = Emptied /\ listed[j] = {} /\ checkpoint[j] = 0
       ELSE AtRest(j)
  /\ pc[p] = "start" =>
       /\ local[p].next = 0 /\ local[p].upto <= Len(log)
       /\ checkpoint[j] > 0 => checkpoint[j] < local[p].upto
       /\ run[p].op = "rebuild" => run[p].floor <= local[p].upto
  /\ pc[p] \in {"load", "save", "checkpoint"} =>
       /\ InLoop(p, j)
       /\ IF run[p].op = "rebuild" THEN RebuildInLoop(p, j) ELSE ProcessingInLoop(p, j)
  /\ pc[p] = "save" => Saving(p, j)
  /\ pc[p] = "checkpoint" => At(p) = local[p].upto /\ local[p].last > 0
  /\ pc[p] = "reindex" => IF result[p] = "ok" THEN Rebuilt(p, j) ELSE Failed(j) /\ checkpoint[j] = 0
  /\ pc[p] = "release" => IF result[p] = "ok" THEN Rebuilt(p, j) /\ IndexIsExact(j) ELSE Failed(j)

\* Whoever works on a projection knows how it is; when nobody does it is at rest.
Known(j) ==
  /\ \A p \in Proc : Works(p, j) => Knows(p, j)
  /\ (\A p \in Proc : ~Works(p, j)) => AtRest(j)

RunnerInvariant ==
  /\ RunnerTypes /\ RebuildsExclude /\ ProcessingAlone /\ Control /\ CheckpointsInLog
  /\ \A j \in Proj : Known(j)

-----------------------------------------------------------------------------
(* What follows from it *)

\* Whoever works on a projection is alone.
LEMMA WorksAlone ==
  ASSUME RunnerTypes, RebuildsExclude, ProcessingAlone, NEW j \in Proj, NEW p \in Proc, NEW q \in Proc,
         Works(p, j), Works(q, j)
  PROVE  p = q
<1>1. P(p) = j /\ P(q) = j /\ pc[p] \notin {"idle", "crashed"} /\ pc[q] \notin {"idle", "crashed"}
  BY DEF Works, Busy
<1>2. run[p].op \in {"rebuild", "process_events"} /\ run[q].op \in {"rebuild", "process_events"}
  BY <1>1 DEF RunnerTypes
<1>3. CASE run[p].op = "process_events" \/ run[q].op = "process_events"
  BY <1>1, <1>3 DEF ProcessingAlone, Works
<1>4. CASE run[p].op = "rebuild" /\ run[q].op = "rebuild"
  BY <1>4 DEF RebuildsExclude, Inside, Works
<1> QED
  BY <1>2, <1>3, <1>4

\* Types of what one process and one projection have.
LEMMA TypesOf ==
  ASSUME RunnerTypes, NEW j \in Proj, NEW p \in Proc
  PROVE  /\ log \in Seq(Event) /\ Len(log) \in Nat
         /\ states[j] \in [Key -> Seq(Application)] /\ listed[j] \subseteq Key
         /\ checkpoint[j] \in Int /\ checkpoint[j] >= -1
         /\ damage[j] \in {"none", "behind", "repeats", "lost"}
         /\ local[p].upto \in Nat /\ local[p].next \in Nat /\ local[p].last \in Nat
         /\ local[p].state \in Seq(Application)
         /\ pc[p] # "idle" => /\ run[p].op \in {"rebuild", "process_events"}
                              /\ P(p) \in Proj /\ run[p].floor \in Nat
BY LenProperties DEF RunnerTypes, NoCheckpoint, P

\* An interruption at any step of p leaves its projection at rest, with the damage
\* it does, and a later checkpoint cannot have been promised.
LEMMA HarmLeaves ==
  ASSUME RunnerTypes, Control, CheckpointsInLog, NEW p \in Proc, Works(p, P(p)), P(p) \in Proj,
         Knows(p, P(p))
  PROVE  Resting(states[P(p)], listed[P(p)], checkpoint[P(p)], Harm(p), log, P(p))
<1> DEFINE j == P(p)
<1>1. /\ log \in Seq(Event) /\ checkpoint[j] \in Int
      /\ checkpoint[j] > 0 => checkpoint[j] < Len(log)
      /\ damage[j] \in {"none", "behind", "repeats", "lost"}
  BY TypesOf DEF CheckpointsInLog
<1>2. pc[p] \in Labels \ {"idle", "crashed", "acquire", "unlink"} /\ run[p].op \in {"rebuild", "process_events"}
  BY TypesOf DEF Works, Busy, RunnerTypes
<1>3. CASE pc[p] = "clear" \/ (pc[p] \in {"read", "start"} /\ run[p].op # "rebuild")
  <2>1. AtRest(j)
    BY <1>3 DEF Knows
  <2>2. Harm(p) = damage[j]
    BY <1>3 DEF Harm
  <2> QED
    BY <2>1, <2>2 DEF AtRest
<1>4. CASE pc[p] = "reset"
  <2>1. Harm(p) = "lost"
    BY <1>4 DEF Harm
  <2> QED
    BY <2>1 DEF Resting
<1>5. CASE pc[p] \in {"read", "start"} /\ run[p].op = "rebuild"
  <2>1. states[j] = Emptied /\ listed[j] = {} /\ checkpoint[j] = 0
    BY <1>5 DEF Knows
  <2>2. \A c \in Int : \A d : c <= 0 => Resting(Emptied, {}, c, d, log, j)
    BY <1>1, RestingEmpty, Zenon
  <2> QED
    BY <2>1, <2>2
<1>6. CASE pc[p] \in {"load", "save", "checkpoint"}
  <2>1. Harm(p) = IF damage[j] # "lost" THEN "repeats" ELSE "lost"
    BY <1>6 DEF Harm
  <2>2. /\ InLoop(p, j)
        /\ IF run[p].op = "rebuild" THEN RebuildInLoop(p, j) ELSE ProcessingInLoop(p, j)
    BY <1>6 DEF Knows
  <2>3. ASSUME damage[j] # "lost", checkpoint[j] > 0
        PROVE  Complete(states[j], log, j, checkpoint[j])
    <3>1. run[p].op = "process_events" /\ ProcessingInLoop(p, j)
      BY <1>2, <2>2, <2>3 DEF RebuildInLoop
    <3>2. Done(p) /\ checkpoint[j] <= local[p].last
      BY <1>1, <2>2, <2>3, TypesOf DEF InLoop, Done
    <3>3. local[p].last \in Int
      BY TypesOf
    <3> QED
      BY <1>1, <2>3, <3>1, <3>2, <3>3, CompleteUpTo DEF ProcessingInLoop
  <2> QED
    BY <2>1, <2>3 DEF Resting
<1>7. CASE pc[p] = "reindex"
  <2>1. Harm(p) = IF damage[j] # "lost" THEN "repeats" ELSE "lost"
    BY <1>7 DEF Harm
  <2>2. result[p] = "ok" => Counted(states[j], log, j, checkpoint[j])
    BY <1>7 DEF Knows, Rebuilt
  <2>3. result[p] # "ok" => checkpoint[j] = 0
    BY <1>7 DEF Knows
  <2>4. Counted(states[j], log, j, checkpoint[j]) =>
          Resting(states[j], Listing(states[j]), checkpoint[j], Harm(p), log, j)
    BY <1>1, RestingMade
  <2> QED
    BY <2>1, <2>2, <2>3, <2>4 DEF Resting
<1>8. CASE pc[p] = "release"
  <2>1. Harm(p) = damage[j]
    BY <1>8 DEF Harm
  <2>2. CASE result[p] = "ok"
    <3>1. Counted(states[j], log, j, checkpoint[j]) /\ listed[j] = Listing(states[j])
      BY <1>8, <2>2 DEF Knows, Rebuilt, IndexIsExact, Listing
    <3> QED
      BY <1>1, <3>1, RestingMade
  <2>3. CASE result[p] # "ok"
    <3>1. AtRest(j)
      BY <1>8, <2>3 DEF Knows, Failed
    <3> QED
      BY <2>1, <3>1 DEF AtRest
  <2> QED
    BY <2>2, <2>3
<1> QED
  BY <1>2, <1>3, <1>4, <1>5, <1>6, <1>7, <1>8 DEF Labels

\* Nothing of j, and nothing of p, is touched.
Kept(j) ==
  /\ states'[j] = states[j] /\ listed'[j] = listed[j]
  /\ checkpoint'[j] = checkpoint[j] /\ damage'[j] = damage[j]

KeptBy(p) == pc'[p] = pc[p] /\ run'[p] = run[p] /\ batch'[p] = batch[p] /\ local'[p] = local[p] /\ result'[p] = result[p]

\* So do states without repetition.
LEMMA FreshStays ==
  ASSUME NEW S, NEW events \in Seq(Event), NEW more \in Seq(Event), Grown(more, events), NEW j,
         NEW floor \in Nat, floor <= Len(events), Fresh(S, events, j, floor)
  PROVE  Fresh(S, more, j, floor)
<1>1. \A n \in 0 .. floor - 1 : more[n + 1] = events[n + 1]
  BY LenProperties DEF Grown
<1> QED
  BY <1>1 DEF Fresh, LookedUp

\* What p knows stays true when others append events and nothing of its is touched.
LEMMA KnowsStays ==
  ASSUME RunnerTypes, RunnerTypes', Control, CheckpointsInLog, NEW p \in Proc, NEW j \in Proj,
         Works(p, j), Knows(p, j), Grown(log', log), Kept(j), KeptBy(p)
  PROVE  Knows(p, j)'
<1> DEFINE S == states[j]
           L == listed[j]
           c == checkpoint[j]
           d == damage[j]
           n == local[p].next
           last == local[p].last
           floor == run[p].floor
<1>1. /\ log \in Seq(Event) /\ log' \in Seq(Event) /\ Len(log) \in Nat /\ Len(log') \in Nat
      /\ Len(log) <= Len(log')
  BY LenProperties DEF RunnerTypes, Grown
<1>2. /\ c \in Int /\ n \in Nat /\ last \in Nat /\ local[p].upto \in Nat /\ floor \in Nat
      /\ c > 0 => c < Len(log)
      /\ floor <= Len(log)
      /\ run[p].op \in {"rebuild", "process_events"} /\ P(p) = j
  BY TypesOf DEF Works, Busy, Control, ControlOf, CheckpointsInLog
<1>3. \A m \in Nat : m < Len(log) => log'[m + 1] = log[m + 1]
  BY <1>1 DEF Grown
<1>4. AtRest(j) => AtRest(j)'
  <2>1. Resting(S, L, c, d, log, j) => Resting(S, L, c, d, log', j)
    BY <1>1, <1>2, RestingStays
  <2> QED
    BY <2>1 DEF AtRest, Kept
<1>5. Counted(S, log, j, c) => Counted(S, log', j, c)
  BY <1>1, <1>2, CountedStays
<1>6. Fresh(S, log, j, floor) => Fresh(S, log', j, floor)
  BY <1>1, <1>2, FreshStays
<1>7. Rebuilt(p, j) => Rebuilt(p, j)'
  BY <1>5, <1>6 DEF Rebuilt, Kept, KeptBy
<1>8. IndexIsExact(j) => IndexIsExact(j)'
  BY DEF IndexIsExact, Kept
<1>9. Failed(j) => Failed(j)'
  BY <1>4 DEF Failed, Kept
<1>10. Done(p)' <=> Done(p)
  BY DEF Done, At, KeptBy
<1>11. InLoop(p, j) => InLoop(p, j)'
  <2> SUFFICES ASSUME InLoop(p, j) PROVE InLoop(p, j)'
    OBVIOUS
  <2>1. /\ n <= local[p].upto /\ local[p].upto <= Len(log)
        /\ last > 0 => last < local[p].upto
    BY DEF InLoop, At
  <2>2. Done(p) => last < Len(log)
    BY <1>1, <1>2, <2>1 DEF InLoop, Done, At
  <2>3. /\ \A i \in Int : i < Len(log) /\ Made(S, log, j, i) => Made(S, log', j, i)
        /\ Begun(S, log, j) => Begun(S, log', j)
    <3> HIDE DEF S
    <3> QED
      BY <1>1, MadeStays
  <2>4. d \in {"none", "behind"} \/ run[p].op = "rebuild" =>
          IF Done(p) THEN Made(S, log', j, last) ELSE Begun(S, log', j)
    BY <1>2, <2>2, <2>3 DEF InLoop
  <2>5. local[p].upto <= Len(log')
    BY <1>1, <1>2, <2>1
  <2> QED
    BY <1>10, <2>4, <2>5 DEF InLoop, At, Kept, KeptBy
<1>12. RebuildInLoop(p, j) => RebuildInLoop(p, j)'
  BY <1>6 DEF RebuildInLoop, At, Kept, KeptBy
<1>13. ProcessingInLoop(p, j) /\ InLoop(p, j) => ProcessingInLoop(p, j)'
  <2>1. InLoop(p, j) /\ Done(p) => last < Len(log)
    BY <1>1, <1>2 DEF InLoop, Done, At
  <2>2. InLoop(p, j) /\ Done(p) /\ Complete(S, log, j, last) => Complete(S, log', j, last)
    BY <1>1, <1>2, <2>1, CompleteStays
  <2> QED
    BY <1>8, <1>10, <2>2 DEF ProcessingInLoop, Kept, KeptBy
<1>14. Saving(p, j) /\ InLoop(p, j) => Saving(p, j)'
  <2> SUFFICES ASSUME Saving(p, j), InLoop(p, j) PROVE Saving(p, j)'
    OBVIOUS
  <2>1. n < Len(log)
    BY <1>1, <1>2 DEF InLoop, Saving, At
  <2>2. log'[n + 1] = log[n + 1] /\ \A m \in 0 .. floor - 1 : log'[m + 1] = log[m + 1]
    BY <1>1, <1>2, <1>3, <2>1
  <2> QED
    BY <2>2 DEF Saving, At, Matched, KeyOf, Kept, KeptBy
<1>15. /\ pc'[p] = pc[p] /\ run'[p] = run[p] /\ result'[p] = result[p] /\ local'[p] = local[p]
       /\ states'[j] = S /\ listed'[j] = L /\ checkpoint'[j] = c
  BY DEF Kept, KeptBy
<1>16. local[p].upto <= Len(log) => local[p].upto <= Len(log')
  BY <1>1, <1>2
<1> QED
  BY <1>4, <1>7, <1>8, <1>9, <1>11, <1>12, <1>13, <1>14, <1>15, <1>16 DEF Knows, At

\* A projection nobody touches stays known.
LEMMA KnownStays ==
  ASSUME RunnerTypes, RunnerTypes', Control, CheckpointsInLog, NEW j \in Proj, Known(j),
         Grown(log', log), Kept(j),
         \A p \in Proc : (Works(p, j)' <=> Works(p, j)) /\ (Works(p, j) => KeptBy(p))
  PROVE  Known(j)'
<1>1. ASSUME NEW p \in Proc, Works(p, j)' PROVE Knows(p, j)'
  BY <1>1, KnowsStays DEF Known
<1>2. ASSUME \A p \in Proc : ~Works(p, j)' PROVE AtRest(j)'
  <2>1. AtRest(j)
    BY <1>2 DEF Known
  <2>2. log \in Seq(Event) /\ log' \in Seq(Event) /\ checkpoint[j] \in Int
        /\ (checkpoint[j] > 0 => checkpoint[j] < Len(log))
    BY DEF RunnerTypes, CheckpointsInLog, NoCheckpoint
  <2>3. Resting(states[j], listed[j], checkpoint[j], damage[j], log', j)
    BY <2>1, <2>2, RestingStays DEF AtRest
  <2> QED
    BY <2>3 DEF AtRest, Kept
<1> QED
  BY <1>1, <1>2 DEF Known

-----------------------------------------------------------------------------
(* Steps of one process: types *)

\* The event p is about to save has a key.
LEMMA SavedKey ==
  ASSUME RunnerInvariant, NEW p \in Proc, pc[p] = "save"
  PROVE  KeyOf(At(p)) \in Key
<1>1. P(p) \in Proj
  BY TypesOf DEF RunnerInvariant, RunnerTypes
<1>2. Works(p, P(p))
  BY DEF Works, Busy
<1>3. Knows(p, P(p))
  BY <1>1, <1>2 DEF RunnerInvariant, Known
<1> QED
  BY <1>3 DEF Knows, Saving

\* The types of what each part of a step writes.
LEMMA DamagedTypes ==
  ASSUME RunnerTypes, NEW p \in Proc, Damaged(p) \/ UNCHANGED damage
  PROVE  damage' \in [Proj -> {"none", "behind", "repeats", "lost"}]
<1>1. P(p) \in Proj => Harm(p) \in {"none", "behind", "repeats", "lost"}
  BY DEF RunnerTypes, Harm
<1> QED
  BY <1>1 DEF RunnerTypes, Damaged

\* What a process that stays in its call or returns from it has then.
CallTypes(pcs, runsOf) ==
  /\ pcs \in [Proc -> Labels]
  /\ runsOf = [p \in Proc |-> runsOf[p]]
  /\ \A p \in Proc : pcs[p] # "idle" =>
       runsOf[p] \in [op : {"rebuild", "process_events"}, proj : Proj, floor : Nat]

\* Those of a call.
LEMMA CallTypesStay ==
  ASSUME RunnerTypes, NEW p \in Proc
  PROVE  /\ \A label \in Labels : Go(p, label) /\ UNCHANGED run /\ pc[p] # "idle" => CallTypes(pc', run')
         /\ Return(p) => CallTypes(pc', run')
         /\ UNCHANGED <<pc, run>> => CallTypes(pc', run')
<1>1. /\ pc \in [Proc -> Labels] /\ run = [q \in Proc |-> run[q]]
      /\ \A q \in Proc : pc[q] # "idle" =>
           run[q] \in [op : {"rebuild", "process_events"}, proj : Proj, floor : Nat]
  BY DEF RunnerTypes
<1>2. ASSUME NEW label \in Labels, Go(p, label), UNCHANGED run, pc[p] # "idle" PROVE CallTypes(pc', run')
  BY <1>1, <1>2 DEF CallTypes, Go
<1>3. ASSUME Return(p) PROVE CallTypes(pc', run')
  BY <1>1, <1>3 DEF CallTypes, Return, Go, Labels
<1>4. ASSUME UNCHANGED <<pc, run>> PROVE CallTypes(pc', run')
  BY <1>1, <1>4 DEF CallTypes
<1> QED
  BY <1>2, <1>3, <1>4

\* Those of the end of process_events_internal.
LEMMA EndProcessingTypes ==
  ASSUME RunnerTypes, NEW p \in Proc, pc[p] # "idle", NEW status \in {"ok", "error"}, EndProcessing(p, status)
  PROVE  /\ CallTypes(pc', run')
         /\ local' \in [Proc -> [upto : Nat, next : Nat, last : Nat, state : Seq(Application)]]
         /\ result' \in [Proc -> {"none", "ok", "error"}]
         /\ damage' \in [Proj -> {"none", "behind", "repeats", "lost"}]
<1>1. CallTypes(pc', run')
  BY CallTypesStay DEF EndProcessing, Labels
<1>2. NoLocals \in [upto : Nat, next : Nat, last : Nat, state : Seq(Application)]
  BY NothingApplied DEF NoLocals, Locals, StartOfLog
<1>3. damage' \in [Proj -> {"none", "behind", "repeats", "lost"}]
  BY DamagedTypes DEF EndProcessing
<1> QED
  BY <1>1, <1>2, <1>3 DEF EndProcessing, Finish, RunnerTypes

\* Those of locals and batch mode.
LEMMA LocalTypesStay ==
  ASSUME RunnerTypes, NEW p \in Proc
  PROVE  /\ \A n \in Nat : local' = [local EXCEPT ![p].upto = n] \/ local' = [local EXCEPT ![p].last = n] =>
              local' \in [Proc -> [upto : Nat, next : Nat, last : Nat, state : Seq(Application)]]
         /\ \A n \in Nat : Advance(p, n) =>
              local' \in [Proc -> [upto : Nat, next : Nat, last : Nat, state : Seq(Application)]]
         /\ \A s \in Seq(Application) : local' = [local EXCEPT ![p].state = s] =>
              local' \in [Proc -> [upto : Nat, next : Nat, last : Nat, state : Seq(Application)]]
<1>1. << >> \in Seq(Application)
  BY NothingApplied
<1>2. local[p].upto \in Nat /\ local[p].next \in Nat /\ local[p].last \in Nat /\ local[p].state \in Seq(Application)
  BY DEF RunnerTypes
<1>3. local[p] \in [upto : Nat, next : Nat, last : Nat, state : Seq(Application)]
  BY DEF RunnerTypes
<1>4. local \in [Proc -> [upto : Nat, next : Nat, last : Nat, state : Seq(Application)]]
  BY DEF RunnerTypes
<1>5. ASSUME NEW n \in Nat, Advance(p, n)
      PROVE  local' \in [Proc -> [upto : Nat, next : Nat, last : Nat, state : Seq(Application)]]
  <2>1. Locals(local[p].upto, local[p].next + 1, n, << >>) \in [upto : Nat, next : Nat, last : Nat, state : Seq(Application)]
    BY <1>1, <1>2 DEF Locals
  <2> QED
    BY <1>5, <2>1 DEF Advance, RunnerTypes
<1>6. ASSUME NEW n \in Nat,
             local' = [local EXCEPT ![p].upto = n] \/ local' = [local EXCEPT ![p].last = n]
      PROVE  local' \in [Proc -> [upto : Nat, next : Nat, last : Nat, state : Seq(Application)]]
  <2>1. CASE local' = [local EXCEPT ![p].upto = n]
    <3>1. [local[p] EXCEPT !.upto = n] \in [upto : Nat, next : Nat, last : Nat, state : Seq(Application)]
      BY <1>3
    <3> QED
      BY <2>1, <3>1, <1>4
  <2>2. CASE local' = [local EXCEPT ![p].last = n]
    <3>1. [local[p] EXCEPT !.last = n] \in [upto : Nat, next : Nat, last : Nat, state : Seq(Application)]
      BY <1>3
    <3> QED
      BY <2>2, <3>1, <1>4
  <2> QED
    BY <1>6, <2>1, <2>2
<1>7. ASSUME NEW s \in Seq(Application), local' = [local EXCEPT ![p].state = s]
      PROVE  local' \in [Proc -> [upto : Nat, next : Nat, last : Nat, state : Seq(Application)]]
  <2>1. [local[p] EXCEPT !.state = s] \in [upto : Nat, next : Nat, last : Nat, state : Seq(Application)]
    BY <1>7, <1>3
  <2> QED
    BY <1>7, <2>1, <1>4
<1> QED
  BY <1>5, <1>6, <1>7, Zenon

\* Those of the files of j.
LEMMA FileTypesStay ==
  ASSUME RunnerTypes, NEW j
  PROVE  /\ \A c \in Nat : checkpoint' = [checkpoint EXCEPT ![j] = c] =>
              checkpoint' \in [Proj -> Nat \cup {NoCheckpoint}]
         /\ \A L \in SUBSET Key : listed' = [listed EXCEPT ![j] = L] => listed' \in [Proj -> SUBSET Key]
         /\ \A k \in Key : \A new \in Seq(Application) :
              states' = [states EXCEPT ![j][k] = new] => states' \in [Proj -> [Key -> Seq(Application)]]
<1>1. ASSUME NEW c \in Nat, checkpoint' = [checkpoint EXCEPT ![j] = c]
      PROVE  checkpoint' \in [Proj -> Nat \cup {NoCheckpoint}]
  BY <1>1 DEF RunnerTypes
<1>2. ASSUME NEW L \in SUBSET Key, listed' = [listed EXCEPT ![j] = L]
      PROVE  listed' \in [Proj -> SUBSET Key]
  BY <1>2 DEF RunnerTypes
<1>3. ASSUME NEW k \in Key, NEW new \in Seq(Application), states' = [states EXCEPT ![j][k] = new]
      PROVE  states' \in [Proj -> [Key -> Seq(Application)]]
  <2> DEFINE T == [Key -> Seq(Application)]
  <2>1. j \in Proj => [states[j] EXCEPT ![k] = new] \in T
    BY DEF RunnerTypes
  <2>2. states' = [states EXCEPT ![j] = [states[j] EXCEPT ![k] = new]] /\ states \in [Proj -> T]
    BY <1>3 DEF RunnerTypes
  <2> HIDE DEF T
  <2>3. states' \in [Proj -> T]
    BY <2>1, <2>2
  <2> QED
    BY <2>3 DEF T
<1> QED
  BY <1>1, <1>2, <1>3, Zenon

\* A step keeps the types.
LEMMA RunnerTypesStay ==
  ASSUME RunnerInvariant, NEW p \in Proc, RunnerStep(p)
  PROVE  RunnerTypes'
<1> DEFINE LocalTypes == local' \in [Proc -> [upto : Nat, next : Nat, last : Nat, state : Seq(Application)]]
           ResultTypes == result' \in [Proc -> {"none", "ok", "error"}]
           DamageTypes == damage' \in [Proj -> {"none", "behind", "repeats", "lost"}]
           FileTypes == /\ states' \in [Proj -> [Key -> Seq(Application)]]
                        /\ listed' \in [Proj -> SUBSET Key]
                        /\ checkpoint' \in [Proj -> Nat \cup {NoCheckpoint}]
           LockTypes == lock' \in [Proj -> Proc \cup {Free, Orphan}]
           BatchTypes == batch' \in [Proc -> SUBSET Proj]
<1>1. RunnerTypes
  BY DEF RunnerInvariant
<1>2. /\ UNCHANGED <<log, runs>> /\ FileTypes /\ LockTypes /\ CallTypes(pc', run') /\ BatchTypes
      /\ LocalTypes /\ ResultTypes /\ DamageTypes
      => RunnerTypes'
  BY <1>1 DEF RunnerTypes, CallTypes
<1>3. /\ UNCHANGED <<states, listed, checkpoint>> => FileTypes
      /\ UNCHANGED lock => LockTypes
      /\ UNCHANGED batch => BatchTypes
      /\ UNCHANGED local => LocalTypes
      /\ UNCHANGED result => ResultTypes
      /\ UNCHANGED damage => DamageTypes
      /\ pc[p] # "idle" => P(p) \in Proj
  BY <1>1 DEF RunnerTypes, P
<1>4. /\ Finish(p, "error") => ResultTypes
      /\ Damaged(p) => DamageTypes
  BY <1>1, DamagedTypes DEF RunnerTypes, Finish
<1>5. \A label \in Labels : Go(p, label) /\ UNCHANGED run /\ pc[p] # "idle" => CallTypes(pc', run')
  BY <1>1, CallTypesStay
<1>6. (Return(p) => CallTypes(pc', run')) /\ (UNCHANGED <<pc, run>> => CallTypes(pc', run'))
  BY <1>1, CallTypesStay
<1>7. Len(log) \in Nat /\ << >> \in Seq(Application)
  BY <1>1, LenProperties, NothingApplied DEF RunnerTypes
<1>8. \A status \in {"ok", "error"} :
        EndProcessing(p, status) /\ pc[p] # "idle" => CallTypes(pc', run') /\ LocalTypes /\ ResultTypes /\ DamageTypes
  BY <1>1, EndProcessingTypes
<1>9. /\ \A n \in Nat : local' = [local EXCEPT ![p].upto = n] \/ local' = [local EXCEPT ![p].last = n] => LocalTypes
      /\ \A n \in Nat : Advance(p, n) => LocalTypes
      /\ \A s \in Seq(Application) : local' = [local EXCEPT ![p].state = s] => LocalTypes
  BY <1>1, LocalTypesStay
<1> HIDE DEF LocalTypes, ResultTypes, DamageTypes
<1>10. CASE AcquireProjectionLock(p)
  <2>1. LockTypes
    BY <1>1, <1>10 DEF AcquireProjectionLock, RunnerTypes
  <2> QED
    BY <1>2, <1>3, <1>5, <1>10, <2>1 DEF AcquireProjectionLock, Labels
<1>11. CASE JudgeLock(p) \/ BreakLock(p)
  <2>1. LockTypes
    BY <1>1, <1>11 DEF JudgeLock, BreakLock, stored, RunnerTypes
  <2> QED
    BY <1>2, <1>3, <1>5, <1>11, <2>1 DEF JudgeLock, BreakLock, stored, Labels
<1>12. CASE ClearStore(p)
  <2>1. [k \in Key |-> << >>] \in [Key -> Seq(Application)]
    BY <1>7
  <2>2. FileTypes
    BY <1>1, <1>12, <2>1 DEF ClearStore, RunnerTypes
  <2> QED
    BY <1>2, <1>3, <1>5, <1>12, <2>2 DEF ClearStore, Labels
<1>13. CASE PassEvent(p)
  <2>1. local[p].last \in Nat /\ At(p) \in Nat
    BY <1>1 DEF RunnerTypes, At
  <2>2. LocalTypes
    BY <1>9, <1>13, <2>1 DEF PassEvent
  <2> QED
    BY <1>2, <1>3, <1>6, <1>13, <2>2 DEF PassEvent, stored
<1>14. CASE EndOfEvents(p)
  BY <1>2, <1>3, <1>5, <1>8, <1>14 DEF EndOfEvents, stored, Labels
<1>15. CASE ReleaseProjectionLock(p)
  <2>1. LockTypes /\ DamageTypes
    BY <1>1, <1>15 DEF ReleaseProjectionLock, RunnerTypes, DamageTypes
  <2> QED
    BY <1>2, <1>3, <1>6, <1>15, <2>1 DEF ReleaseProjectionLock
<1>16. ASSUME NEW failed \in BOOLEAN, ResetCheckpoint(p, failed) PROVE RunnerTypes'
  <2>1. checkpoint' = [checkpoint EXCEPT ![P(p)] = 0] \/ UNCHANGED checkpoint
    BY <1>16 DEF ResetCheckpoint, StartOfLog
  <2>2. checkpoint' \in [Proj -> Nat \cup {NoCheckpoint}]
    BY <1>1, <2>1, FileTypesStay DEF RunnerTypes
  <2>3. P(p) \in Proj /\ (batch' = [batch EXCEPT ![p] = @ \cup {P(p)}] \/ UNCHANGED batch)
    BY <1>3, <1>16 DEF ResetCheckpoint
  <2>4. BatchTypes
    <3>1. batch[p] \cup {P(p)} \in SUBSET Proj
      BY <1>1, <2>3 DEF RunnerTypes
    <3> QED
      BY <1>1, <2>3, <3>1 DEF RunnerTypes
  <2>5. states' \in [Proj -> [Key -> Seq(Application)]] /\ listed' \in [Proj -> SUBSET Key]
    BY <1>1, <1>16 DEF ResetCheckpoint, RunnerTypes
  <2> QED
    BY <1>2, <1>3, <1>4, <1>5, <1>16, <2>2, <2>4, <2>5 DEF ResetCheckpoint, Labels
<1>17. ASSUME NEW failed \in BOOLEAN, ReadAllEvents(p, failed) PROVE RunnerTypes'
  BY <1>2, <1>3, <1>4, <1>5, <1>6, <1>7, <1>9, <1>17 DEF ReadAllEvents, Labels, stored
<1>18. ASSUME NEW failed \in BOOLEAN, StartProcessing(p, failed) PROVE RunnerTypes'
  <2>1. (IF checkpoint[P(p)] = NoCheckpoint THEN StartOfLog ELSE checkpoint[P(p)]) \in Nat
    BY <1>1, <1>3, <1>18 DEF StartProcessing, StartOfLog, RunnerTypes
  <2> QED
    BY <1>2, <1>3, <1>5, <1>8, <1>9, <1>18, <2>1 DEF StartProcessing, Labels, stored
<1>19. ASSUME NEW failed \in BOOLEAN, LoadState(p, failed) PROVE RunnerTypes'
  <2>1. pc[p] = "load" /\ P(p) \in Proj /\ KeyOf(At(p)) \in Key
    <3>1. pc[p] = "load" /\ P(p) \in Proj /\ At(p) \in Nat
      BY <1>1, <1>3, <1>19 DEF LoadState, MoreEvents, At, RunnerTypes
    <3>2. Works(p, P(p))
      BY <3>1 DEF Works, Busy
    <3>3. InLoop(p, P(p))
      BY <3>1, <3>2 DEF RunnerInvariant, Known, Knows
    <3>6. At(p) < local[p].upto /\ local[p].upto <= Len(log)
      BY <1>19, <3>3 DEF LoadState, MoreEvents, InLoop
    <3>4. local[p].upto \in Nat
      BY <1>1 DEF RunnerTypes
    <3>5. At(p) + 1 \in 1 .. Len(log)
      BY <1>7, <3>1, <3>6, <3>4
    <3>7. log[At(p) + 1] \in Event
      BY <1>1, <3>5 DEF RunnerTypes
    <3> QED
      BY <1>19, <3>1, <3>7 DEF Event, LoadState, KeyOf
  <2>2. RelatedEvents(P(p), At(p), run[p].op) \in SUBSET Nat
    BY <1>7 DEF RelatedEvents
  <2>3. states[P(p)][KeyOf(At(p))] \in Seq(Application) /\ At(p) \in Nat
    BY <1>1, <2>1 DEF RunnerTypes, At
  <2>4. Append(states[P(p)][KeyOf(At(p))], Applied(At(p), RelatedEvents(P(p), At(p), run[p].op))) \in Seq(Application)
    BY <2>2, <2>3, AtsOfAppend
  <2> QED
    BY <1>2, <1>3, <1>5, <1>7, <1>8, <1>9, <1>19, <2>1, <2>4 DEF LoadState, Labels, stored
<1>20. ASSUME NEW failed \in BOOLEAN, SaveState(p, failed) PROVE RunnerTypes'
  <2>1. pc[p] = "save"
    BY <1>20 DEF SaveState
  <2>2. KeyOf(At(p)) \in Key /\ local[p].state \in Seq(Application) /\ At(p) \in Nat /\ P(p) \in Proj
    BY <1>1, <1>3, <2>1, SavedKey DEF RunnerTypes, At
  <2>3. CASE failed
    BY <1>2, <1>3, <1>8, <1>20, <2>1, <2>3 DEF SaveState
  <2>4. CASE ~failed
    <3>1. states' \in [Proj -> [Key -> Seq(Application)]]
      <4>1. states' = [states EXCEPT ![P(p)][KeyOf(At(p))] = local[p].state]
        BY <1>20, <2>4 DEF SaveState
      <4> QED
        BY <1>1, <2>2, <4>1, FileTypesStay
    <3>2. listed' \in [Proj -> SUBSET Key]
      <4>1. \E L \in SUBSET Key : listed' = [listed EXCEPT ![P(p)] = L]
        <5> DEFINE L == IF P(p) \in batch[p] THEN listed[P(p)]
                        ELSE IF local[p].state = << >> THEN listed[P(p)] \ {KeyOf(At(p))}
                        ELSE listed[P(p)] \cup {KeyOf(At(p))}
        <5>1. listed' = [listed EXCEPT ![P(p)] = L]
          BY <1>20, <2>4 DEF SaveState
        <5>2. L \in SUBSET Key
          BY <1>1, <2>2 DEF RunnerTypes
        <5> QED
          BY <5>1, <5>2
      <4> QED
        BY <1>1, <4>1, FileTypesStay
    <3>3. checkpoint' \in [Proj -> Nat \cup {NoCheckpoint}]
      BY <1>1, <1>20 DEF SaveState, RunnerTypes
    <3>4. LocalTypes /\ CallTypes(pc', run')
      BY <1>5, <1>9, <1>20, <2>1, <2>2, <2>4 DEF SaveState, Labels
    <3> QED
      BY <1>2, <1>3, <1>20, <2>4, <3>1, <3>2, <3>3, <3>4 DEF SaveState
  <2> QED
    BY <2>3, <2>4
<1>21. ASSUME NEW failed \in BOOLEAN, SaveCheckpoint(p, failed) PROVE RunnerTypes'
  <2>1. local[p].last \in Nat /\ (checkpoint' = [checkpoint EXCEPT ![P(p)] = local[p].last] \/ UNCHANGED checkpoint)
    BY <1>1, <1>21 DEF SaveCheckpoint, RunnerTypes
  <2>2. checkpoint' \in [Proj -> Nat \cup {NoCheckpoint}]
    BY <1>1, <2>1, FileTypesStay DEF RunnerTypes
  <2>3. states' \in [Proj -> [Key -> Seq(Application)]] /\ listed' \in [Proj -> SUBSET Key]
    BY <1>1, <1>21 DEF SaveCheckpoint, RunnerTypes
  <2> QED
    BY <1>2, <1>3, <1>8, <1>21, <2>2, <2>3 DEF SaveCheckpoint
<1>22. ASSUME NEW failed \in BOOLEAN, RebuildIndex(p, failed) PROVE RunnerTypes'
  <2>1. UNCHANGED listed \/ \E L \in SUBSET Key : listed' = [listed EXCEPT ![P(p)] = L]
    BY <1>22 DEF RebuildIndex
  <2>2. listed' \in [Proj -> SUBSET Key]
    BY <1>1, <2>1, FileTypesStay DEF RunnerTypes
  <2>3. /\ states' \in [Proj -> [Key -> Seq(Application)]]
        /\ checkpoint' \in [Proj -> Nat \cup {NoCheckpoint}]
    BY <1>1, <1>22 DEF RebuildIndex, RunnerTypes
  <2>4. BatchTypes
    <3>1. batch' = [batch EXCEPT ![p] = @ \ {P(p)}]
      BY <1>22 DEF RebuildIndex
    <3> QED
      BY <1>1, <3>1 DEF RunnerTypes
  <2> QED
    BY <1>2, <1>3, <1>4, <1>5, <1>22, <2>2, <2>3, <2>4 DEF RebuildIndex, Labels
<1> QED
  BY <1>10, <1>11, <1>12, <1>13, <1>14, <1>15, <1>16, <1>17, <1>18, <1>19, <1>20, <1>21, <1>22 DEF RunnerStep

-----------------------------------------------------------------------------
(* Steps of one process: what they leave alone *)

\* p touches nothing but what is its own and its projection j.
StepOf(p, j) ==
  /\ UNCHANGED log
  /\ \A q \in Proc : q # p => KeptBy(q)
  /\ \A i \in Proj : i # j => Kept(i)

\* What a step writes for p it does not write for q, and for j not for i.
LEMMA CallFrame ==
  ASSUME RunnerTypes, NEW p \in Proc, NEW q \in Proc, q # p
  PROVE  /\ \A label : Go(p, label) => pc'[q] = pc[q]
         /\ \A status : Finish(p, status) => result'[q] = result[q]
         /\ Return(p) => pc'[q] = pc[q] /\ run'[q] = run[q]
         /\ \A l : local' = [local EXCEPT ![p] = l] => local'[q] = local[q]
         /\ \A b : batch' = [batch EXCEPT ![p] = b] => batch'[q] = batch[q]
<1>1. \A label : Go(p, label) => pc'[q] = pc[q]
  BY DEF RunnerTypes, Go
<1>2. \A status : Finish(p, status) => result'[q] = result[q]
  BY DEF RunnerTypes, Finish
<1>3. Return(p) => run'[q] = run[q]
  BY DEF RunnerTypes, Return
<1>4. \A l : local' = [local EXCEPT ![p] = l] => local'[q] = local[q]
  BY DEF RunnerTypes
<1>5. \A b : batch' = [batch EXCEPT ![p] = b] => batch'[q] = batch[q]
  BY DEF RunnerTypes
<1> QED
  BY <1>1, <1>2, <1>3, <1>4, <1>5 DEF Return

\* The same for files.
LEMMA FileFrame ==
  ASSUME RunnerTypes, NEW j, NEW i \in Proj, i # j
  PROVE  /\ \A S : states' = [states EXCEPT ![j] = S] => states'[i] = states[i]
         /\ \A L : listed' = [listed EXCEPT ![j] = L] => listed'[i] = listed[i]
         /\ \A c : checkpoint' = [checkpoint EXCEPT ![j] = c] => checkpoint'[i] = checkpoint[i]
         /\ \A d : damage' = [damage EXCEPT ![j] = d] => damage'[i] = damage[i]
BY DEF RunnerTypes

\* The same at the end of process_events_internal.
LEMMA EndProcessingFrame ==
  ASSUME RunnerTypes, NEW p \in Proc, NEW status, EndProcessing(p, status)
  PROVE  /\ \A q \in Proc : q # p => pc'[q] = pc[q] /\ run'[q] = run[q] /\ local'[q] = local[q] /\ result'[q] = result[q]
         /\ \A i \in Proj : i # P(p) => damage'[i] = damage[i]
<1>1. ASSUME NEW q \in Proc, q # p
      PROVE  pc'[q] = pc[q] /\ run'[q] = run[q] /\ local'[q] = local[q] /\ result'[q] = result[q]
  BY <1>1, CallFrame DEF EndProcessing
<1>2. ASSUME NEW i \in Proj, i # P(p) PROVE damage'[i] = damage[i]
  <2>1. damage' = [damage EXCEPT ![P(p)] = Harm(p)] \/ UNCHANGED damage
    BY DEF EndProcessing, Damaged
  <2> QED
    BY <1>2, <2>1 DEF RunnerTypes
<1> QED
  BY <1>1, <1>2

\* A step of p is one of its own and of its projection.
LEMMA StepFrame ==
  ASSUME RunnerTypes, NEW p \in Proc, RunnerStep(p)
  PROVE  StepOf(p, P(p))
<1> DEFINE j == P(p)
<1>1. ASSUME NEW q \in Proc, q # p
      PROVE  /\ \A label : Go(p, label) => pc'[q] = pc[q]
             /\ \A status : Finish(p, status) => result'[q] = result[q]
             /\ Return(p) => pc'[q] = pc[q] /\ run'[q] = run[q]
             /\ \A l : local' = [local EXCEPT ![p] = l] => local'[q] = local[q]
             /\ \A b : batch' = [batch EXCEPT ![p] = b] => batch'[q] = batch[q]
  BY <1>1, CallFrame
<1>2. ASSUME NEW i \in Proj, i # j
      PROVE  /\ \A S : states' = [states EXCEPT ![j] = S] => states'[i] = states[i]
             /\ \A L : listed' = [listed EXCEPT ![j] = L] => listed'[i] = listed[i]
             /\ \A c : checkpoint' = [checkpoint EXCEPT ![j] = c] => checkpoint'[i] = checkpoint[i]
             /\ \A d : damage' = [damage EXCEPT ![j] = d] => damage'[i] = damage[i]
  BY <1>2, FileFrame
<1>3. \A status : EndProcessing(p, status) =>
        /\ \A q \in Proc : q # p => pc'[q] = pc[q] /\ run'[q] = run[q] /\ local'[q] = local[q] /\ result'[q] = result[q]
        /\ \A i \in Proj : i # j => damage'[i] = damage[i]
  BY EndProcessingFrame
<1> USE DEF StepOf, Kept, KeptBy
<1>4. CASE AcquireProjectionLock(p)
  BY <1>1, <1>4 DEF AcquireProjectionLock
<1>5. CASE JudgeLock(p) \/ BreakLock(p)
  BY <1>1, <1>5 DEF JudgeLock, BreakLock, stored
<1>6. CASE ClearStore(p)
  BY <1>1, <1>2, <1>6 DEF ClearStore
<1>7. CASE PassEvent(p)
  BY <1>1, <1>7 DEF PassEvent, Advance, stored
<1>8. CASE EndOfEvents(p)
  BY <1>1, <1>3, <1>8 DEF EndOfEvents, stored
<1>9. CASE ReleaseProjectionLock(p)
  BY <1>1, <1>2, <1>9 DEF ReleaseProjectionLock
<1>10. ASSUME NEW failed \in BOOLEAN, ResetCheckpoint(p, failed) PROVE StepOf(p, j)
  BY <1>1, <1>2, <1>10 DEF ResetCheckpoint, Damaged
<1>11. ASSUME NEW failed \in BOOLEAN, ReadAllEvents(p, failed) PROVE StepOf(p, j)
  <2>1. failed \/ local' = [local EXCEPT ![p] = [local[p] EXCEPT !.upto = Len(log)]]
    BY <1>11 DEF ReadAllEvents
  <2> QED
    BY <1>1, <1>2, <1>11, <2>1 DEF ReadAllEvents, Damaged, stored
<1>12. ASSUME NEW failed \in BOOLEAN, StartProcessing(p, failed) PROVE StepOf(p, j)
  <2>1. failed \/ \E c : local' = [local EXCEPT ![p] = [local[p] EXCEPT !.last = c]]
    BY <1>12 DEF StartProcessing
  <2> QED
    BY <1>1, <1>3, <1>12, <2>1 DEF StartProcessing, stored
<1>13. ASSUME NEW failed \in BOOLEAN, LoadState(p, failed) PROVE StepOf(p, j)
  <2>1. failed \/ \E c : local' = [local EXCEPT ![p] = [local[p] EXCEPT !.state = c]]
    BY <1>13 DEF LoadState
  <2> QED
    BY <1>1, <1>3, <1>13, <2>1 DEF LoadState, stored
<1>14. ASSUME NEW failed \in BOOLEAN, SaveState(p, failed) PROVE StepOf(p, j)
  <2>1. CASE failed
    BY <1>3, <1>14, <2>1 DEF SaveState
  <2>2. CASE ~failed
    <3>1. states' = [states EXCEPT ![j] = [states[j] EXCEPT ![KeyOf(At(p))] = local[p].state]]
      BY <1>14, <2>2 DEF SaveState
    <3>2. \E L : listed' = [listed EXCEPT ![j] = L]
      BY <1>14, <2>2 DEF SaveState
    <3> QED
      BY <1>1, <1>2, <1>14, <2>2, <3>1, <3>2 DEF SaveState, Advance
  <2> QED
    BY <2>1, <2>2
<1>15. ASSUME NEW failed \in BOOLEAN, SaveCheckpoint(p, failed) PROVE StepOf(p, j)
  BY <1>2, <1>3, <1>15 DEF SaveCheckpoint
<1>16. ASSUME NEW failed \in BOOLEAN, RebuildIndex(p, failed) PROVE StepOf(p, j)
  BY <1>1, <1>2, <1>16 DEF RebuildIndex, Damaged
<1> QED
  BY <1>4, <1>5, <1>6, <1>7, <1>8, <1>9, <1>10, <1>11, <1>12, <1>13, <1>14, <1>15, <1>16 DEF RunnerStep

-----------------------------------------------------------------------------
(* Steps of one process: who is where *)

\* Nobody new works on a projection: a process that was in its call is in it still, or
\* has left it.
LEMMA AloneStays ==
  ASSUME RebuildsExclude, ProcessingAlone,
         \A q \in Proc : pc'[q] \notin {"idle", "crashed"} =>
           /\ pc[q] \notin {"idle", "crashed"} /\ run'[q] = run[q]
           /\ pc'[q] \notin {"acquire", "unlink"} => pc[q] \notin {"acquire", "unlink"}
  PROVE  RebuildsExclude' /\ ProcessingAlone'
<1>1. \A q \in Proc : \A i \in Proj : Inside(q, i)' => Inside(q, i)
  BY DEF Inside, Busy, P
<1>2. RebuildsExclude'
  BY <1>1 DEF RebuildsExclude
<1>3. ProcessingAlone'
  BY DEF ProcessingAlone, Busy, P
<1> QED
  BY <1>2, <1>3

\* Where a step of p takes it.
LEMMA StepGoes ==
  ASSUME RunnerTypes, NEW p \in Proc, RunnerStep(p)
  PROVE  /\ pc[p] \notin {"idle", "crashed"} /\ pc'[p] # "crashed"
         /\ pc'[p] # "idle" => run'[p] = run[p]
         /\ pc'[p] \in {"acquire", "unlink"} => pc[p] \in {"acquire", "unlink"}
         /\ pc[p] \in {"acquire", "unlink"} => AcquireProjectionLock(p) \/ JudgeLock(p) \/ BreakLock(p)
         /\ pc[p] = "release" => ReleaseProjectionLock(p)
         /\ lock' = lock \/ AcquireProjectionLock(p) \/ BreakLock(p) \/ ReleaseProjectionLock(p)
<1> DEFINE Goes(labels, ends) ==
             /\ pc[p] \in labels
             /\ \/ pc'[p] \in ends /\ run'[p] = run[p]
                \/ pc'[p] = "idle"
             /\ UNCHANGED lock
<1>1. /\ \A label : Go(p, label) => pc'[p] = label
      /\ Return(p) => pc'[p] = "idle"
  BY DEF RunnerTypes, Go, Return
<1>2. \A status : EndProcessing(p, status) => (pc'[p] = "reindex" /\ run' = run) \/ pc'[p] = "idle"
  BY <1>1 DEF EndProcessing
<1>3. AcquireProjectionLock(p) => pc[p] = "acquire" /\ pc'[p] = "clear" /\ run' = run
  BY <1>1 DEF AcquireProjectionLock
<1>4. /\ JudgeLock(p) => pc[p] = "acquire" /\ pc'[p] = "unlink" /\ run' = run /\ lock' = lock
      /\ BreakLock(p) => pc[p] = "unlink" /\ pc'[p] = "acquire" /\ run' = run
  BY <1>1 DEF JudgeLock, BreakLock, stored
<1>5. ReleaseProjectionLock(p) => pc[p] = "release" /\ pc'[p] = "idle"
  BY <1>1 DEF ReleaseProjectionLock
<1>6. ClearStore(p) => Goes({"clear"}, {"reset"})
  BY <1>1 DEF ClearStore
<1>7. PassEvent(p) => Goes({"load"}, {"load"})
  BY DEF PassEvent, MoreEvents, stored
<1>8. EndOfEvents(p) => Goes({"load"}, {"checkpoint", "reindex"})
  BY <1>1, <1>2 DEF EndOfEvents, stored
<1>9. ASSUME NEW failed \in BOOLEAN
      PROVE  /\ ResetCheckpoint(p, failed) => Goes({"reset"}, {"release", "read"})
             /\ ReadAllEvents(p, failed) => Goes({"read"}, {"release", "start"})
             /\ StartProcessing(p, failed) => Goes({"start"}, {"load", "reindex"})
             /\ LoadState(p, failed) => Goes({"load"}, {"save", "reindex"})
             /\ SaveState(p, failed) => Goes({"save"}, {"load", "reindex"})
             /\ SaveCheckpoint(p, failed) => Goes({"checkpoint"}, {"reindex"})
             /\ RebuildIndex(p, failed) => Goes({"reindex"}, {"release"})
  <2>1. ResetCheckpoint(p, failed) => Goes({"reset"}, {"release", "read"})
    BY <1>1 DEF ResetCheckpoint
  <2>2. ReadAllEvents(p, failed) => Goes({"read"}, {"release", "start"})
    BY <1>1 DEF ReadAllEvents, stored
  <2>3. StartProcessing(p, failed) => Goes({"start"}, {"load", "reindex"})
    BY <1>1, <1>2 DEF StartProcessing, stored
  <2>4. LoadState(p, failed) => Goes({"load"}, {"save", "reindex"})
    BY <1>1, <1>2 DEF LoadState, MoreEvents, stored
  <2>5. SaveState(p, failed) => Goes({"save"}, {"load", "reindex"})
    BY <1>1, <1>2 DEF SaveState
  <2>6. SaveCheckpoint(p, failed) => Goes({"checkpoint"}, {"reindex"})
    BY <1>1, <1>2 DEF SaveCheckpoint
  <2>7. RebuildIndex(p, failed) => Goes({"reindex"}, {"release"})
    BY <1>1 DEF RebuildIndex
  <2> QED
    BY <2>1, <2>2, <2>3, <2>4, <2>5, <2>6, <2>7
<1> QED
  BY <1>3, <1>4, <1>5, <1>6, <1>7, <1>8, <1>9 DEF RunnerStep

\* A step takes nobody into a process_events.
LEMMA RunnerStepAlone ==
  ASSUME RunnerInvariant, NEW p \in Proc, RunnerStep(p)
  PROVE  ProcessingAlone'
<1>1. RunnerTypes /\ ProcessingAlone
  BY DEF RunnerInvariant
<1>2. /\ pc[p] \notin {"idle", "crashed"} /\ pc'[p] # "crashed"
      /\ pc'[p] # "idle" => run'[p] = run[p]
      /\ StepOf(p, P(p))
  BY <1>1, StepFrame, StepGoes
<1>3. \A q \in Proc : pc'[q] \notin {"idle", "crashed"} =>
        pc[q] \notin {"idle", "crashed"} /\ run'[q] = run[q]
  BY <1>2 DEF StepOf, KeptBy
<1> QED
  BY <1>1, <1>3 DEF ProcessingAlone, Busy, P

\* A step keeps results and locals where they belong.
LEMMA RunnerStepControl ==
  ASSUME RunnerInvariant, NEW p \in Proc, RunnerStep(p)
  PROVE  Control'
<1>1. RunnerTypes /\ \A q \in Proc : ControlOf(q)
  BY DEF RunnerInvariant, Control
<1>2. StepOf(p, P(p))
  BY <1>1, StepFrame
<1>3. \A q \in Proc : q # p => ControlOf(q)'
  BY <1>1, <1>2 DEF StepOf, KeptBy, ControlOf
<1>4. SUFFICES ControlOf(p)'
  BY <1>3 DEF Control
<1>5. /\ \A label : Go(p, label) => pc'[p] = label
      /\ Return(p) => pc'[p] = "idle"
      /\ \A status : Finish(p, status) => result'[p] = status
  BY <1>1 DEF RunnerTypes, Go, Return, Finish
<1>6. ControlOf(p) /\ UNCHANGED log
  BY <1>1, <1>2 DEF StepOf
<1>7. ASSUME pc[p] # "idle", NEW status \in {"ok", "error"}, EndProcessing(p, status) PROVE ControlOf(p)'
  <2>1. /\ (run[p].op = "rebuild" /\ pc'[p] = "reindex" /\ run' = run) \/ pc'[p] = "idle"
        /\ result'[p] = status
    BY <1>5, <1>7 DEF EndProcessing
  <2>2. local'[p].next = 0
    BY <1>1, <1>7 DEF EndProcessing, RunnerTypes, NoLocals, Locals
  <2> QED
    BY <1>6, <1>7, <2>1, <2>2, StepGoes, <1>1 DEF ControlOf
<1>8. CASE AcquireProjectionLock(p)
  BY <1>5, <1>6, <1>8 DEF AcquireProjectionLock, ControlOf
<1>9. CASE JudgeLock(p) \/ BreakLock(p)
  BY <1>5, <1>6, <1>9 DEF JudgeLock, BreakLock, ControlOf
<1>10. CASE ClearStore(p)
  BY <1>5, <1>6, <1>10 DEF ClearStore, ControlOf
<1>11. CASE PassEvent(p)
  BY <1>6, <1>11 DEF PassEvent, MoreEvents, ControlOf
<1>12. CASE EndOfEvents(p)
  BY <1>5, <1>6, <1>7, <1>12 DEF EndOfEvents, ControlOf
<1>13. CASE ReleaseProjectionLock(p)
  BY <1>5, <1>6, <1>13 DEF ReleaseProjectionLock, ControlOf
<1>14. ASSUME NEW failed \in BOOLEAN, ResetCheckpoint(p, failed) PROVE ControlOf(p)'
  BY <1>5, <1>6, <1>14 DEF ResetCheckpoint, ControlOf
<1>15. ASSUME NEW failed \in BOOLEAN, ReadAllEvents(p, failed) PROVE ControlOf(p)'
  BY <1>5, <1>6, <1>15 DEF ReadAllEvents, ControlOf
<1>16. ASSUME NEW failed \in BOOLEAN, StartProcessing(p, failed) PROVE ControlOf(p)'
  BY <1>5, <1>6, <1>7, <1>16 DEF StartProcessing, ControlOf
<1>17. ASSUME NEW failed \in BOOLEAN, LoadState(p, failed) PROVE ControlOf(p)'
  BY <1>5, <1>6, <1>7, <1>17 DEF LoadState, MoreEvents, ControlOf
<1>18. ASSUME NEW failed \in BOOLEAN, SaveState(p, failed) PROVE ControlOf(p)'
  BY <1>5, <1>6, <1>7, <1>18 DEF SaveState, ControlOf
<1>19. ASSUME NEW failed \in BOOLEAN, SaveCheckpoint(p, failed) PROVE ControlOf(p)'
  BY <1>7, <1>19 DEF SaveCheckpoint
<1>20. ASSUME NEW failed \in BOOLEAN, RebuildIndex(p, failed) PROVE ControlOf(p)'
  BY <1>5, <1>6, <1>20 DEF RebuildIndex, ControlOf
<1> QED
  BY <1>8, <1>9, <1>10, <1>11, <1>12, <1>13, <1>14, <1>15, <1>16, <1>17, <1>18, <1>19, <1>20 DEF RunnerStep

\* A checkpoint written is that of an event of the log.
LEMMA RunnerStepCheckpoints ==
  ASSUME RunnerInvariant, NEW p \in Proc, RunnerStep(p)
  PROVE  CheckpointsInLog'
<1>1. RunnerTypes /\ CheckpointsInLog
  BY DEF RunnerInvariant
<1>2. StepOf(p, P(p)) /\ pc[p] \notin {"idle", "crashed"}
  BY <1>1, StepFrame, StepGoes
<1>3. P(p) \in Proj
  BY <1>1, <1>2 DEF RunnerTypes, P
<1>4. CASE UNCHANGED checkpoint
  BY <1>1, <1>2, <1>4 DEF CheckpointsInLog, StepOf
<1>5. CASE checkpoint' # checkpoint
  <2>1. \/ checkpoint' = [checkpoint EXCEPT ![P(p)] = 0]
        \/ pc[p] = "checkpoint" /\ checkpoint' = [checkpoint EXCEPT ![P(p)] = local[p].last]
    BY <1>5 DEF RunnerStep, AcquireProjectionLock, JudgeLock, BreakLock, ClearStore, PassEvent, EndOfEvents,
                ReleaseProjectionLock, ResetCheckpoint, ReadAllEvents, StartProcessing, LoadState, SaveState,
                SaveCheckpoint, RebuildIndex, stored, StartOfLog
  <2>2. pc[p] = "checkpoint" /\ local[p].last > 0 => local[p].last < Len(log)
    <3> SUFFICES ASSUME pc[p] = "checkpoint", local[p].last > 0 PROVE local[p].last < Len(log)
      OBVIOUS
    <3>1. InLoop(p, P(p))
      BY <1>3 DEF RunnerInvariant, Known, Knows, Works, Busy
    <3> QED
      BY <1>1, <1>3, <3>1, TypesOf DEF InLoop
  <2>3. checkpoint'[P(p)] > 0 => checkpoint'[P(p)] < Len(log)
    BY <1>1, <1>3, <2>1, <2>2 DEF RunnerTypes
  <2> QED
    BY <1>1, <1>2, <2>3 DEF CheckpointsInLog, StepOf, Kept
<1> QED
  BY <1>4, <1>5

-----------------------------------------------------------------------------
(* Steps of one process: what it knows *)

\* A step of p, alone with j, that leaves it known leaves all projections known.
LEMMA KnownAfterStep ==
  ASSUME RunnerInvariant, RunnerTypes', NEW p \in Proc, NEW j \in Proj, StepOf(p, j),
         \A q \in Proc : q # p => ~Works(q, j),
         \A i \in Proj : i # j => ~Works(p, i) /\ ~Works(p, i)',
         Works(p, j)' => Knows(p, j)', ~Works(p, j)' => AtRest(j)'
  PROVE  \A i \in Proj : Known(i)'
<1>1. RunnerTypes /\ Control /\ CheckpointsInLog
  BY DEF RunnerInvariant
<1>2. \A q \in Proc : q # p => \A i \in Proj : Works(q, i)' <=> Works(q, i)
  BY DEF StepOf, KeptBy, Works, Busy, P
<1>3. ASSUME NEW i \in Proj, i # j PROVE Known(i)'
  <2>1. Grown(log', log) /\ Kept(i) /\ Known(i)
    BY <1>3 DEF StepOf, Grown, RunnerInvariant
  <2>2. \A q \in Proc : (Works(q, i)' <=> Works(q, i)) /\ (Works(q, i) => KeptBy(q))
    BY <1>2, <1>3 DEF StepOf
  <2> QED
    BY <1>1, <2>1, <2>2, KnownStays
<1>4. Known(j)'
  <2>1. \A q \in Proc : Works(q, j)' => q = p
    BY <1>2
  <2> QED
    BY <2>1 DEF Known
<1> QED
  BY <1>3, <1>4

\* How a step of p leaves its projection.
LeavesKnown(p, j) == IF pc'[p] = "idle" THEN AtRest(j)' ELSE Knows(p, j)'

\* p at work.
LEMMA AtWork ==
  ASSUME RunnerInvariant, NEW p \in Proc, pc[p] \notin {"idle", "crashed", "acquire", "unlink"}
  PROVE  /\ P(p) \in Proj /\ Works(p, P(p)) /\ Knows(p, P(p))
         /\ Resting(states[P(p)], listed[P(p)], checkpoint[P(p)], Harm(p), log, P(p))
         /\ run[p].op \in {"rebuild", "process_events"}
         /\ RunnerTypes /\ Control /\ CheckpointsInLog /\ RebuildsExclude /\ ProcessingAlone
<1>1. /\ P(p) \in Proj /\ Works(p, P(p))
      /\ RunnerTypes /\ Control /\ CheckpointsInLog /\ RebuildsExclude /\ ProcessingAlone
  BY DEF RunnerInvariant, RunnerTypes, Works, Busy, P
<1>2. Knows(p, P(p))
  BY <1>1 DEF RunnerInvariant, Known
<1> QED
  BY <1>1, <1>2, HarmLeaves DEF RunnerTypes

\* The same for p at work, from how it leaves its projection.
LEMMA KnownAfterWork ==
  ASSUME RunnerInvariant, RunnerTypes', NEW p \in Proc, NEW j, P(p) = j, RunnerStep(p),
         pc[p] \notin {"acquire", "unlink"}, LeavesKnown(p, j)
  PROVE  \A i \in Proj : Known(i)'
<1>1. RunnerTypes /\ RebuildsExclude /\ ProcessingAlone
  BY DEF RunnerInvariant
<1>2. /\ pc[p] \notin {"idle", "crashed", "acquire", "unlink"} /\ pc'[p] \notin {"crashed", "acquire", "unlink"}
      /\ pc'[p] # "idle" => run'[p] = run[p]
  BY <1>1, StepGoes
<1>3. j \in Proj /\ Works(p, j) /\ StepOf(p, j)
  BY <1>1, <1>2, AtWork, StepFrame
<1>4. \A q \in Proc : q # p => ~Works(q, j)
  BY <1>1, <1>3, WorksAlone
<1>5. \A i \in Proj : i # j => ~Works(p, i) /\ ~Works(p, i)'
  BY <1>2 DEF Works, Busy, P
<1>6. Works(p, j)' <=> pc'[p] # "idle"
  BY <1>2 DEF Works, Busy, P
<1>7. (Works(p, j)' => Knows(p, j)') /\ (~Works(p, j)' => AtRest(j)')
  BY <1>6 DEF LeavesKnown
<1> QED
  BY <1>3, <1>4, <1>5, <1>7, KnownAfterStep

\* Its files untouched, a damaged projection is at rest.
FilesKept(j) == states'[j] = states[j] /\ listed'[j] = listed[j] /\ checkpoint'[j] = checkpoint[j]

\* An interruption or failure at a step leaves the projection at rest, damaged.
LEMMA DamagedRests ==
  ASSUME RunnerInvariant, NEW p \in Proc, NEW j, P(p) = j, pc[p] \notin {"idle", "crashed", "acquire", "unlink"},
         UNCHANGED log, Damaged(p), FilesKept(j)
  PROVE  damage'[j] = Harm(p) /\ AtRest(j)'
<1>1. damage'[j] = Harm(p)
  BY AtWork DEF Damaged, RunnerTypes
<1>2. Resting(states[j], listed[j], checkpoint[j], Harm(p), log, j)
  BY AtWork
<1>3. Resting(states'[j], listed'[j], checkpoint'[j], damage'[j], log', j)
  BY <1>1, <1>2 DEF FilesKept
<1>4. AtRest(j)'
  BY <1>3 DEF AtRest
<1> QED
  BY <1>1, <1>4

\* What a step of a call writes.
LEMMA CallSteps ==
  ASSUME RunnerTypes, NEW p \in Proc
  PROVE  /\ \A label : Go(p, label) => pc'[p] = label
         /\ Return(p) => pc'[p] = "idle"
         /\ \A status : Finish(p, status) => result'[p] = status
BY DEF RunnerTypes, Go, Return, Finish

\* process_events_internal fails.
LEMMA ProcessingFails ==
  ASSUME RunnerInvariant, NEW p \in Proc, NEW j, P(p) = j, pc[p] \in {"start", "load", "save", "checkpoint"},
         UNCHANGED log, FilesKept(j), EndProcessing(p, "error")
  PROVE  LeavesKnown(p, j)
<1>1. /\ j \in Proj /\ Knows(p, j) /\ run[p].op \in {"rebuild", "process_events"} /\ RunnerTypes
  BY AtWork
<1>2. Damaged(p) /\ Finish(p, "error")
  BY DEF EndProcessing
<1>3. damage'[j] = Harm(p) /\ AtRest(j)'
  BY <1>2, DamagedRests
<1>4. CASE run[p].op = "rebuild"
  <2>1. pc'[p] = "reindex" /\ result'[p] = "error"
    BY <1>1, <1>2, <1>4, CallSteps DEF EndProcessing
  <2>2. checkpoint[j] = 0
    BY <1>1, <1>4 DEF Knows, RebuildInLoop
  <2>3. Harm(p) # "none"
    BY <1>4 DEF Harm
  <2> QED
    BY <1>3, <2>1, <2>2, <2>3 DEF LeavesKnown, Knows, Failed, FilesKept
<1>5. CASE run[p].op # "rebuild"
  <2>1. pc'[p] = "idle"
    BY <1>1, <1>5, CallSteps DEF EndProcessing
  <2> QED
    BY <1>3, <2>1 DEF LeavesKnown
<1> QED
  BY <1>4, <1>5

\* The steps of a rebuild up to process_events_internal.
LEMMA ClearStoreKnown ==
  ASSUME RunnerInvariant, NEW p \in Proc, NEW j, P(p) = j, ClearStore(p)
  PROVE  LeavesKnown(p, j)
<1>1. RunnerTypes /\ j \in Proj
  BY AtWork DEF ClearStore
<1>2. pc'[p] = "reset"
  BY <1>1, CallSteps DEF ClearStore
<1>3. states'[j] = Emptied /\ listed'[j] = {}
  BY <1>1 DEF ClearStore, RunnerTypes, Emptied
<1> QED
  BY <1>2, <1>3 DEF LeavesKnown, Knows

\* The checkpoint is reset, or stays ahead of the states.
LEMMA ResetCheckpointKnown ==
  ASSUME RunnerInvariant, NEW p \in Proc, NEW j, P(p) = j, NEW failed \in BOOLEAN, ResetCheckpoint(p, failed)
  PROVE  LeavesKnown(p, j)
<1>1. RunnerTypes /\ j \in Proj /\ Control /\ Knows(p, j) /\ pc[p] = "reset" /\ run' = run
  BY AtWork DEF ResetCheckpoint
<1>2. CASE failed
  <2>1. pc'[p] = "release" /\ result'[p] = "error" /\ Damaged(p) /\ FilesKept(j) /\ UNCHANGED log
    BY <1>1, <1>2, CallSteps DEF ResetCheckpoint, FilesKept
  <2>2. damage'[j] = Harm(p) /\ AtRest(j)'
    BY <1>1, <2>1, DamagedRests
  <2>3. Harm(p) # "none"
    BY <1>1 DEF Harm
  <2> QED
    BY <2>1, <2>2, <2>3 DEF LeavesKnown, Knows, Failed
<1>3. CASE ~failed
  <2>1. pc'[p] = "read" /\ checkpoint'[j] = 0 /\ states' = states /\ listed' = listed
    BY <1>1, <1>3, CallSteps DEF ResetCheckpoint, RunnerTypes, StartOfLog
  <2>2. run[p].op = "rebuild" /\ states[j] = Emptied /\ listed[j] = {}
    BY <1>1 DEF Control, ControlOf, Knows
  <2> QED
    BY <1>1, <2>1, <2>2 DEF LeavesKnown, Knows
<1> QED
  BY <1>2, <1>3

\* All events are read, or none.
LEMMA ReadAllEventsKnown ==
  ASSUME RunnerInvariant, NEW p \in Proc, NEW j, P(p) = j, NEW failed \in BOOLEAN, ReadAllEvents(p, failed)
  PROVE  LeavesKnown(p, j)
<1>1. /\ RunnerTypes /\ j \in Proj /\ Control /\ CheckpointsInLog /\ Knows(p, j)
      /\ pc[p] = "read" /\ UNCHANGED log /\ FilesKept(j)
  BY AtWork DEF ReadAllEvents, FilesKept, stored
<1>2. CASE failed
  <2>1. Damaged(p) /\ Finish(p, "error")
    BY <1>2 DEF ReadAllEvents
  <2>2. damage'[j] = Harm(p) /\ AtRest(j)'
    BY <1>1, <2>1, DamagedRests
  <2>3. CASE run[p].op = "rebuild"
    <3>1. pc'[p] = "release" /\ result'[p] = "error"
      BY <1>1, <1>2, <2>1, <2>3, CallSteps DEF ReadAllEvents
    <3>2. Harm(p) # "none"
      BY <1>1, <2>3 DEF Harm
    <3> QED
      BY <2>2, <3>1, <3>2 DEF LeavesKnown, Knows, Failed
  <2>4. CASE run[p].op # "rebuild"
    <3>1. pc'[p] = "idle"
      BY <1>1, <1>2, <2>4, CallSteps DEF ReadAllEvents
    <3> QED
      BY <2>2, <3>1 DEF LeavesKnown
  <2> QED
    BY <2>3, <2>4
<1>3. CASE ~failed
  <2>1. pc'[p] = "start" /\ run' = run /\ damage' = damage /\ log' = log
    BY <1>1, <1>3, CallSteps DEF ReadAllEvents
  <2>2. local'[p].upto = Len(log) /\ local'[p].next = local[p].next
    BY <1>1, <1>3 DEF ReadAllEvents, RunnerTypes
  <2>3. local[p].next = 0 /\ run[p].floor <= Len(log)
    BY <1>1 DEF Control, ControlOf
  <2>4. IF run[p].op = "rebuild" THEN states[j] = Emptied /\ listed[j] = {} /\ checkpoint[j] = 0 ELSE AtRest(j)
    BY <1>1 DEF Knows
  <2>5. Len(log) \in Nat
    BY <1>1, TypesOf
  <2>6. AtRest(j) => AtRest(j)'
    BY <1>1, <2>1 DEF AtRest, FilesKept
  <2>7. checkpoint'[j] > 0 => checkpoint'[j] < Len(log)
    BY <1>1 DEF FilesKept, CheckpointsInLog
  <2>8. IF run'[p].op = "rebuild" THEN states'[j] = Emptied /\ listed'[j] = {} /\ checkpoint'[j] = 0 ELSE AtRest(j)'
    BY <1>1, <2>1, <2>4, <2>6 DEF FilesKept
  <2> QED
    BY <1>1, <2>1, <2>2, <2>3, <2>5, <2>7, <2>8 DEF LeavesKnown, Knows
<1> QED
  BY <1>2, <1>3

\* The checkpoint in its hands at the start of the loop.
LEMMA StartProcessingKnown ==
  ASSUME RunnerInvariant, NEW p \in Proc, NEW j, P(p) = j, NEW failed \in BOOLEAN, StartProcessing(p, failed)
  PROVE  LeavesKnown(p, j)
<1>1. /\ RunnerTypes /\ j \in Proj /\ Control /\ CheckpointsInLog /\ Knows(p, j)
      /\ run[p].op \in {"rebuild", "process_events"}
      /\ pc[p] = "start" /\ UNCHANGED log /\ FilesKept(j)
  BY AtWork DEF StartProcessing, FilesKept, stored
<1>2. CASE failed
  <2>1. EndProcessing(p, "error")
    BY <1>2 DEF StartProcessing
  <2> QED
    BY <1>1, <2>1, ProcessingFails
<1>3. CASE ~failed
  <2> DEFINE c == checkpoint[j]
             last == IF c = NoCheckpoint THEN StartOfLog ELSE c
  <2>1. pc'[p] = "load" /\ UNCHANGED <<log, run, damage, batch>>
    BY <1>1, <1>3, CallSteps DEF StartProcessing
  <2>2. local'[p].last = last /\ local'[p].next = local[p].next /\ local'[p].upto = local[p].upto
    BY <1>1, <1>3 DEF StartProcessing, RunnerTypes
  <2>3. /\ local[p].next = 0 /\ local[p].upto <= Len(log)
        /\ c > 0 => c < local[p].upto
        /\ run[p].op = "rebuild" => run[p].floor <= local[p].upto
    BY <1>1 DEF Knows
  <2>4. local[p].upto \in Nat /\ c \in Int /\ c >= -1 /\ log \in Seq(Event)
    BY <1>1, TypesOf
  <2>5. Done(p)' <=> c > 0
    <3>1. last > 0 <=> c > 0
      BY <2>4 DEF NoCheckpoint, StartOfLog
    <3> HIDE DEF c, last
    <3> QED
      BY <2>2, <2>3, <3>1 DEF Done, At
  <2>6. c > 0 => last = c
    BY DEF NoCheckpoint
  <2>7. CASE run[p].op = "rebuild"
    <3>1. states[j] = Emptied /\ listed[j] = {} /\ c = 0
      BY <1>1, <2>7 DEF Knows
    <3>2. Begun(Emptied, log, j) /\ Fresh(Emptied, log, j, run[p].floor)
      BY <2>4, RestingEmpty, NothingApplied DEF Fresh, LookedUp, Emptied
    <3>3. InLoop(p, j)'
      BY <1>1, <2>1, <2>2, <2>3, <2>4, <2>5, <3>1, <3>2 DEF InLoop, At, NoCheckpoint, FilesKept
    <3>4. RebuildInLoop(p, j)'
      BY <1>1, <2>1, <2>2, <2>3, <2>7, <3>1, <3>2 DEF RebuildInLoop, At, FilesKept
    <3> QED
      BY <2>1, <2>7, <3>3, <3>4 DEF LeavesKnown, Knows
  <2>8. CASE run[p].op # "rebuild"
    <3>1. Resting(states[j], listed[j], c, damage[j], log, j)
      BY <1>1, <2>8 DEF Knows, AtRest
    <3>2. damage[j] \in {"none", "behind"} =>
            /\ IF c > 0 THEN Made(states[j], log, j, last) ELSE Begun(states[j], log, j)
            /\ IndexIsExact(j)
      BY <2>6, <3>1 DEF Resting, Counted, IndexIsExact, Listing
    <3>3. damage[j] # "lost" /\ c > 0 => Complete(states[j], log, j, last)
      BY <2>6, <3>1 DEF Resting
    <3>4. InLoop(p, j)'
      <4>1. \/ last = c /\ 0 <= last + 1
            \/ last = 0 /\ c <= 0
        BY <2>4 DEF NoCheckpoint, StartOfLog
      <4>2. last > 0 => last < local[p].upto
        BY <2>3, <2>4 DEF StartOfLog
      <4> HIDE DEF last
      <4>3. /\ 0 <= local[p].upto /\ local[p].upto <= Len(log)
            /\ damage[j] \in {"none", "behind"} \/ run[p].op = "rebuild" =>
                 IF c > 0 THEN Made(states[j], log, j, last) ELSE Begun(states[j], log, j)
        BY <2>3, <2>4, <2>8, <3>2
      <4> QED
        BY <1>1, <2>1, <2>2, <2>3, <2>5, <4>1, <4>2, <4>3 DEF InLoop, At, FilesKept
    <3>5. ProcessingInLoop(p, j)'
      BY <1>1, <2>1, <2>2, <2>5, <3>2, <3>3 DEF ProcessingInLoop, IndexIsExact, FilesKept
    <3> QED
      BY <2>1, <2>8, <3>4, <3>5 DEF LeavesKnown, Knows
  <2> QED
    BY <2>7, <2>8
<1> QED
  BY <1>2, <1>3

\* The event p looks at is the first, or the one after the last it has counted.
LEMMA EventInHand ==
  ASSUME RunnerTypes, NEW p \in Proc, NEW j \in Proj, InLoop(p, j), ~Processed(local[p].last, At(p)),
         At(p) < local[p].upto
  PROVE  /\ At(p) \in Nat /\ local[p].last \in Nat /\ local[p].upto \in Nat /\ At(p) < Len(log)
         /\ At(p) > 0 => Done(p) /\ local[p].last = At(p) - 1
         /\ At(p) = 0 => ~Done(p) /\ local[p].last = 0
         /\ checkpoint[j] <= At(p)
<1>1. /\ local[p].next \in Nat /\ local[p].last \in Nat /\ local[p].upto \in Nat /\ Len(log) \in Nat
      /\ checkpoint[j] \in Int
  BY TypesOf
<1>2. /\ local[p].next <= local[p].upto /\ local[p].upto <= Len(log)
      /\ \/ local[p].last = checkpoint[j] /\ local[p].next <= local[p].last + 1
         \/ local[p].next > 0 /\ local[p].last = local[p].next - 1 /\ checkpoint[j] <= local[p].last
         \/ local[p].next = 0 /\ local[p].last = 0 /\ checkpoint[j] <= 0
      /\ local[p].next > local[p].last \/ local[p].last <= 0
      /\ local[p].next < local[p].upto
  BY <1>1 DEF InLoop, Processed, At
<1> QED
  BY <1>1, <1>2 DEF Done, At

\* It has been applied or passed.
LEMMA NextEvent ==
  ASSUME RunnerInvariant, NEW p \in Proc, NEW j \in Proj, P(p) = j, pc[p] \in {"load", "save"}, pc'[p] = "load",
         UNCHANGED <<log, run, batch>>, checkpoint'[j] = checkpoint[j], damage'[j] = damage[j],
         At(p) < local[p].upto, ~Processed(local[p].last, At(p)), Advance(p, At(p)),
         After(states[j], states'[j], log, j, At(p)),
         run[p].op = "rebuild" /\ j \in Related =>
           \A k \in Key : LookedUp(states[j][k], log, k, run[p].floor) => LookedUp(states'[j][k], log, k, run[p].floor),
         damage[j] \in {"none", "behind"} /\ j \notin batch[p] /\ IndexIsExact(j) => IndexIsExact(j)'
  PROVE  LeavesKnown(p, j)
<1> DEFINE n == At(p)
           last == local[p].last
           S == states[j]
           S2 == states'[j]
<1>1. /\ RunnerTypes /\ InLoop(p, j) /\ run[p].op \in {"rebuild", "process_events"}
      /\ IF run[p].op = "rebuild" THEN RebuildInLoop(p, j) ELSE ProcessingInLoop(p, j)
  BY AtWork DEF Knows
<1>2. /\ n \in Nat /\ last \in Nat /\ local[p].upto \in Nat /\ n < Len(log)
      /\ n > 0 => Done(p) /\ last = n - 1
      /\ n = 0 => ~Done(p) /\ last = 0
      /\ checkpoint[j] <= n
  BY <1>1, EventInHand
<1>3. log \in Seq(Event) /\ S \in [Key -> Seq(Application)] /\ checkpoint[j] \in Int
  BY <1>1, TypesOf
<1>4. local'[p].next = n + 1 /\ local'[p].last = n /\ local'[p].upto = local[p].upto
  BY <1>1 DEF RunnerTypes, Advance, Locals, At
<1>5. Done(p)'
  BY <1>2, <1>4 DEF Done, At
<1>6. damage[j] \in {"none", "behind"} \/ run[p].op = "rebuild" =>
        (IF n > 0 THEN Made(S, log, j, n - 1) ELSE Begun(S, log, j))
  BY <1>1, <1>2 DEF InLoop
<1>7. damage[j] \in {"none", "behind"} \/ run[p].op = "rebuild" => Made(S2, log, j, n)
  <2> HIDE DEF n, S, S2
  <2>1. (IF n > 0 THEN Made(S, log, j, n - 1) ELSE Begun(S, log, j)) => Made(S2, log, j, n)
    <3>1. After(S, S2, log, j, n)
      BY DEF n, S, S2
    <3> QED
      BY <1>2, <1>3, <3>1, AfterMade
  <2> QED
    BY <1>6, <2>1
<1>8. InLoop(p, j)'
  <2>1. n + 1 <= local[p].upto /\ local[p].upto <= Len(log) /\ n + 1 > 0 /\ (n + 1) - 1 = n
    BY <1>1, <1>2 DEF InLoop
  <2> HIDE DEF n
  <2> QED
    BY <1>2, <1>4, <1>5, <1>7, <2>1 DEF InLoop, At
<1>9. CASE run[p].op = "rebuild"
  <2>1. RebuildInLoop(p, j)
    BY <1>1, <1>9
  <2>2. \A k \in Key : Once(S[k]) /\ n \notin Ats(S[k])
    <3> SUFFICES ASSUME NEW k \in Key PROVE Once(S[k]) /\ n \notin Ats(S[k])
      OBVIOUS
    <3>1. Once(S[k])
      BY <2>1 DEF RebuildInLoop, Fresh
    <3>2. CASE n > 0
      <4>1. Ats(S[k]) = MadeOf(log, j, k, n - 1)
        BY <1>6, <1>9, <3>2 DEF Made
      <4>2. n - 1 \in Int /\ ~(n <= n - 1)
        BY <1>2
      <4> QED
        BY <1>3, <3>1, <4>1, <4>2, MadeOfFacts
    <3>3. CASE n = 0
      BY <2>1, <3>1, <3>3, NothingApplied DEF RebuildInLoop, Emptied
    <3> QED
      BY <1>2, <3>2, <3>3
  <2>3. \A k \in Key : Once(S2[k])
    BY <1>2, <1>3, <2>2, AfterOnce
  <2>4. Fresh(S2, log, j, run[p].floor)
    BY <1>9, <2>1, <2>3 DEF RebuildInLoop, Fresh
  <2>5. RebuildInLoop(p, j)'
    BY <1>2, <1>4, <2>1, <2>4 DEF RebuildInLoop, At
  <2> QED
    BY <1>8, <1>9, <2>5 DEF LeavesKnown, Knows
<1>10. CASE run[p].op # "rebuild"
  <2>1. ProcessingInLoop(p, j)
    BY <1>1, <1>10
  <2>2. damage[j] # "lost" => Complete(S2, log, j, n)
    <3>1. damage[j] # "lost" /\ n > 0 => Complete(S, log, j, n - 1)
      BY <1>2, <2>1 DEF ProcessingInLoop
    <3>2. After(S, S2, log, j, n)
      OBVIOUS
    <3> HIDE DEF n, S, S2
    <3> QED
      BY <1>2, <1>3, <3>1, <3>2, AfterComplete
  <2>3. ProcessingInLoop(p, j)'
    BY <1>4, <2>1, <2>2 DEF ProcessingInLoop
  <2> QED
    BY <1>8, <1>10, <2>3 DEF LeavesKnown, Knows
<1> QED
  BY <1>9, <1>10

\* The event is passed: it was processed, or is not of a key of j.
LEMMA PassEventKnown ==
  ASSUME RunnerInvariant, NEW p \in Proc, NEW j, P(p) = j, PassEvent(p)
  PROVE  LeavesKnown(p, j)
<1>1. /\ pc[p] = "load" /\ At(p) < local[p].upto /\ pc' = pc
      /\ UNCHANGED <<log, run, batch, states, listed, checkpoint, damage>>
  BY DEF PassEvent, MoreEvents, stored
<1>2. /\ RunnerTypes /\ j \in Proj /\ InLoop(p, j) /\ run[p].op \in {"rebuild", "process_events"}
      /\ IF run[p].op = "rebuild" THEN RebuildInLoop(p, j) ELSE ProcessingInLoop(p, j)
  BY <1>1, AtWork DEF Knows
<1>3. CASE Processed(local[p].last, At(p)) /\ Advance(p, local[p].last)
  <2>1. local'[p].next = local[p].next + 1 /\ local'[p].last = local[p].last /\ local'[p].upto = local[p].upto
    BY <1>2, <1>3 DEF RunnerTypes, Advance, Locals
  <2>2. /\ local[p].next \in Nat /\ local[p].last \in Nat /\ local[p].upto \in Nat
        /\ local[p].last > 0 /\ local[p].next <= local[p].last /\ checkpoint[j] \in Int
    BY <1>2, <1>3, TypesOf DEF Processed, At
  <2>3. Done(p) /\ Done(p)'
    BY <2>1, <2>2 DEF Done
  <2>4. /\ local[p].next + 1 <= local[p].upto /\ local[p].next + 1 <= local[p].last + 1
        /\ local[p].last = checkpoint[j] \/ ~(local[p].last = local[p].next - 1)
        /\ local[p].last # 0 /\ local[p].next + 1 # 0
    BY <1>1, <2>2 DEF At
  <2>5. local[p].last = checkpoint[j]
    BY <1>2, <2>2, <2>4 DEF InLoop, At
  <2>6. InLoop(p, j)'
    BY <1>1, <1>2, <2>1, <2>3, <2>4, <2>5 DEF InLoop, At
  <2>7. CASE run[p].op = "rebuild"
    <3>1. RebuildInLoop(p, j)'
      BY <1>1, <1>2, <2>1, <2>4, <2>7 DEF RebuildInLoop, At
    <3> QED
      BY <1>1, <2>6, <2>7, <3>1 DEF LeavesKnown, Knows
  <2>8. CASE run[p].op # "rebuild"
    <3>1. ProcessingInLoop(p, j)'
      BY <1>1, <1>2, <2>1, <2>3, <2>8 DEF ProcessingInLoop, IndexIsExact
    <3> QED
      BY <1>1, <2>6, <2>8, <3>1 DEF LeavesKnown, Knows
  <2> QED
    BY <2>7, <2>8
<1>4. CASE /\ ~Processed(local[p].last, At(p))
           /\ Matched(P(p), At(p)) => KeyOf(At(p)) = Keyless
           /\ Advance(p, At(p))
  <2>1. \A k \in Key : ~IsOf(log[At(p) + 1], j, k)
    BY <1>4, RunnerAssumption DEF IsOf, Matched, KeyOf
  <2>2. After(states[j], states'[j], log, j, At(p))
    BY <1>1, <2>1 DEF After
  <2>3. damage[j] \in {"none", "behind"} /\ j \notin batch[p] /\ IndexIsExact(j) => IndexIsExact(j)'
    BY <1>1 DEF IndexIsExact
  <2> QED
    BY <1>1, <1>2, <1>4, <2>2, <2>3, NextEvent
<1> QED
  BY <1>3, <1>4 DEF PassEvent

\* Its new state is made.
LEMMA LoadStateKnown ==
  ASSUME RunnerInvariant, NEW p \in Proc, NEW j, P(p) = j, NEW failed \in BOOLEAN, LoadState(p, failed)
  PROVE  LeavesKnown(p, j)
<1>1. /\ pc[p] = "load" /\ At(p) < local[p].upto /\ UNCHANGED <<log, batch>> /\ FilesKept(j)
      /\ ~Processed(local[p].last, At(p)) /\ Matched(j, At(p)) /\ KeyOf(At(p)) # Keyless
  BY DEF LoadState, MoreEvents, FilesKept, stored
<1>2. /\ RunnerTypes /\ Control /\ j \in Proj /\ InLoop(p, j) /\ run[p].op \in {"rebuild", "process_events"}
      /\ IF run[p].op = "rebuild" THEN RebuildInLoop(p, j) ELSE ProcessingInLoop(p, j)
  BY <1>1, AtWork DEF Knows
<1>3. CASE failed
  <2>1. EndProcessing(p, "error")
    BY <1>3 DEF LoadState
  <2> QED
    BY <1>1, <2>1, ProcessingFails
<1>4. CASE ~failed
  <2> DEFINE others == RelatedEvents(j, At(p), run[p].op)
             new == IF log[At(p) + 1].ends THEN << >>
                    ELSE Append(states[j][KeyOf(At(p))], Applied(At(p), others))
  <2>1. pc'[p] = "save" /\ UNCHANGED <<run, damage>> /\ local' = [local EXCEPT ![p].state = new]
    BY <1>2, <1>4, CallSteps DEF LoadState
  <2>2. /\ local'[p].state = new /\ local'[p].next = local[p].next
        /\ local'[p].last = local[p].last /\ local'[p].upto = local[p].upto
    <3> HIDE DEF new
    <3> QED
      BY <1>2, <2>1 DEF RunnerTypes
  <2>3. At(p) \in Nat /\ At(p) + 1 \in 1 .. Len(log) /\ Len(log) \in Nat /\ run[p].floor <= Len(log)
    <3>1. At(p) \in Nat /\ At(p) < Len(log) /\ Len(log) \in Nat
      BY <1>1, <1>2, EventInHand, TypesOf
    <3>2. run[p].floor <= Len(log)
      BY <1>1, <1>2 DEF Control, ControlOf
    <3> QED
      BY <3>1, <3>2
  <2>4. log[At(p) + 1] \in Event
    BY <1>2, <2>3 DEF RunnerTypes
  <2>5. KeyOf(At(p)) \in Key
    BY <1>1, <2>4 DEF KeyOf, Event
  <2>6. others \in SUBSET Nat
    BY <2>3 DEF RelatedEvents
  <2>7. run[p].op = "rebuild" /\ j \in Related =>
          \A m \in 0 .. run[p].floor - 1 : KeyOf(m) = KeyOf(At(p)) => m \in others
    <3>1. run[p].floor \in Nat
      BY <1>1, <1>2, TypesOf
    <3>2. \A m \in 0 .. run[p].floor - 1 : m \in 0 .. Len(log) - 1
      BY <2>3, <3>1
    <3> QED
      BY <3>2 DEF RelatedEvents
  <2> HIDE DEF others
  <2>8. Saving(p, j)'
    <3>1. \E o \in SUBSET Nat :
            /\ new = IF log[At(p) + 1].ends THEN << >>
                     ELSE Append(states[j][KeyOf(At(p))], Applied(At(p), o))
            /\ run[p].op = "rebuild" /\ j \in Related =>
                 \A m \in 0 .. run[p].floor - 1 : KeyOf(m) = KeyOf(At(p)) => m \in o
      BY <2>6, <2>7
    <3> HIDE DEF new
    <3>2. /\ UNCHANGED <<log, run>> /\ states'[j] = states[j] /\ At(p)' = At(p)
          /\ local'[p].state = new /\ local'[p].last = local[p].last /\ local'[p].upto = local[p].upto
      BY <1>1, <2>1, <2>2 DEF At, FilesKept
    <3>3. \A m : KeyOf(m)' = KeyOf(m)
      BY <3>2 DEF KeyOf
    <3> QED
      BY <1>1, <2>5, <3>1, <3>2, <3>3 DEF Saving, Matched
  <2>9. Done(p)' <=> Done(p)
    BY <2>2 DEF Done, At
  <2>10. InLoop(p, j)'
    BY <1>1, <1>2, <2>1, <2>2, <2>9 DEF InLoop, At, FilesKept
  <2>11. CASE run[p].op = "rebuild"
    <3>1. RebuildInLoop(p, j)'
      BY <1>1, <1>2, <2>1, <2>2, <2>11 DEF RebuildInLoop, At, FilesKept
    <3> QED
      BY <2>1, <2>8, <2>10, <2>11, <3>1 DEF LeavesKnown, Knows
  <2>12. CASE run[p].op # "rebuild"
    <3>1. ProcessingInLoop(p, j)'
      BY <1>1, <1>2, <2>1, <2>2, <2>9, <2>12 DEF ProcessingInLoop, IndexIsExact, FilesKept
    <3> QED
      BY <2>1, <2>8, <2>10, <2>12, <3>1 DEF LeavesKnown, Knows
  <2> QED
    BY <2>11, <2>12
<1> QED
  BY <1>3, <1>4

\* It is saved.
LEMMA SaveStateKnown ==
  ASSUME RunnerInvariant, NEW p \in Proc, NEW j, P(p) = j, NEW failed \in BOOLEAN, SaveState(p, failed)
  PROVE  LeavesKnown(p, j)
<1>1. pc[p] = "save" /\ UNCHANGED <<log, batch, checkpoint>>
  BY DEF SaveState
<1>2. /\ RunnerTypes /\ j \in Proj /\ InLoop(p, j) /\ Saving(p, j)
  BY <1>1, AtWork DEF Knows
<1>3. CASE failed
  <2>1. EndProcessing(p, "error") /\ FilesKept(j)
    BY <1>1, <1>3 DEF SaveState, FilesKept
  <2> QED
    BY <1>1, <2>1, ProcessingFails
<1>4. CASE ~failed
  <2> DEFINE n == At(p)
             k0 == KeyOf(n)
             new == local[p].state
             S == states[j]
             S2 == states'[j]
  <2>1. /\ pc'[p] = "load" /\ UNCHANGED <<run, damage>> /\ Advance(p, n)
        /\ states' = [states EXCEPT ![j][k0] = new]
        /\ listed' = [listed EXCEPT ![j] =
             IF j \in batch[p] THEN @ ELSE IF new = << >> THEN @ \ {k0} ELSE @ \cup {k0}]
    BY <1>2, <1>4, CallSteps DEF SaveState
  <2>2. /\ n < local[p].upto /\ ~Processed(local[p].last, n) /\ Matched(j, n) /\ k0 \in Key
    BY <1>2 DEF Saving
  <2>3. PICK others \in SUBSET Nat :
          /\ new = IF log[n + 1].ends THEN << >> ELSE Append(S[k0], Applied(n, others))
          /\ run[p].op = "rebuild" /\ j \in Related =>
               \A m \in 0 .. run[p].floor - 1 : KeyOf(m) = k0 => m \in others
    BY <1>2 DEF Saving
  <2>4. S \in [Key -> Seq(Application)] /\ new \in Seq(Application) /\ n \in Nat
    BY <1>2, TypesOf DEF At
  <2>5. S2 = [S EXCEPT ![k0] = new]
    BY <1>2, <2>1 DEF RunnerTypes
  <2>6. listed'[j] = IF j \in batch[p] THEN listed[j]
                     ELSE IF new = << >> THEN listed[j] \ {k0} ELSE listed[j] \cup {k0}
    BY <1>2, <2>1 DEF RunnerTypes
  <2>7. IsOf(log[n + 1], j, k0)
    BY <2>2 DEF IsOf, Matched, KeyOf
  <2> HIDE DEF n, k0, new, S, S2
  <2>8. After(S, S2, log, j, n)
    BY <2>2, <2>3, <2>5, <2>7 DEF After
  <2>9. /\ \A k \in Key : k # k0 => S2[k] = S[k]
        /\ S2[k0] = new
    BY <2>2, <2>4, <2>5
  <2>10. ASSUME run[p].op = "rebuild", j \in Related, NEW k \in Key, LookedUp(S[k], log, k, run[p].floor)
         PROVE  LookedUp(S2[k], log, k, run[p].floor)
    <3>1. CASE k # k0
      BY <2>9, <2>10, <3>1
    <3>2. CASE k = k0 /\ new = << >>
      BY <2>9, <3>2 DEF LookedUp
    <3>3. CASE k = k0 /\ new = Append(S[k0], Applied(n, others))
      <4> SUFFICES ASSUME NEW i \in DOMAIN new, NEW m \in 0 .. run[p].floor - 1, log[m + 1].key = k0
                   PROVE  m \in new[i].related
        BY <2>9, <3>3 DEF LookedUp
      <4>1. S[k0] \in Seq(Application) /\ Len(S[k0]) \in Nat /\ DOMAIN S[k0] = 1 .. Len(S[k0])
        BY <2>2, <2>4, LenProperties
      <4>2. /\ DOMAIN new = 1 .. Len(S[k0]) + 1
            /\ \A l \in 1 .. Len(S[k0]) : new[l] = S[k0][l]
            /\ new[Len(S[k0]) + 1] = Applied(n, others)
        BY <2>4, <3>3, <4>1, AppendProperties, LenProperties
      <4>3. CASE i \in 1 .. Len(S[k0])
        BY <2>10, <3>3, <4>1, <4>2, <4>3 DEF LookedUp
      <4>4. CASE i = Len(S[k0]) + 1
        <5>1. m \in others
          BY <2>3, <2>10 DEF KeyOf
        <5> QED
          BY <4>2, <4>4, <5>1 DEF Applied
      <4> QED
        BY <4>1, <4>2, <4>3, <4>4
    <3> QED
      BY <2>3, <3>1, <3>2, <3>3
  <2>11. ASSUME j \notin batch[p], IndexIsExact(j) PROVE IndexIsExact(j)'
    <3>1. listed[j] = {k \in Key : S[k] # << >>}
      BY <2>11 DEF IndexIsExact, S
    <3>2. listed'[j] = {k \in Key : S2[k] # << >>}
      BY <2>2, <2>6, <2>9, <2>11, <3>1
    <3> QED
      BY <3>2 DEF IndexIsExact, S2
  <2> QED
    BY <1>1, <1>2, <2>1, <2>2, <2>8, <2>10, <2>11, NextEvent DEF n, S, S2
<1> QED
  BY <1>3, <1>4

\* process_events_internal succeeds: the checkpoint is that of the last event, or there
\* was none to count.
LEMMA ProcessingSucceeds ==
  ASSUME RunnerInvariant, NEW p \in Proc, NEW j, P(p) = j, pc[p] \in {"load", "checkpoint"},
         EndProcessing(p, "ok"), UNCHANGED <<log, states, listed>>, At(p) = local[p].upto,
         \/ local[p].last > 0 /\ checkpoint'[j] = local[p].last
         \/ local[p].last = 0 /\ checkpoint'[j] = checkpoint[j]
  PROVE  LeavesKnown(p, j)
<1> DEFINE last == local[p].last
           c2 == checkpoint'[j]
           S == states[j]
<1>1. /\ RunnerTypes /\ j \in Proj /\ InLoop(p, j) /\ run[p].op \in {"rebuild", "process_events"}
      /\ IF run[p].op = "rebuild" THEN RebuildInLoop(p, j) ELSE ProcessingInLoop(p, j)
  BY AtWork DEF Knows
<1>2. /\ last \in Nat /\ At(p) \in Nat /\ local[p].upto \in Nat /\ Len(log) \in Nat
      /\ checkpoint[j] \in Int /\ checkpoint[j] >= -1
  BY <1>1, TypesOf DEF At
<1>3. /\ c2 > 0 => c2 = last /\ Done(p) /\ c2 < Len(log)
      /\ c2 <= 0 => last = 0
      /\ c2 \in Int
  BY <1>1, <1>2 DEF InLoop, Done
<1>4. damage[j] \in {"none", "behind"} \/ run[p].op = "rebuild" => Counted(S, log, j, c2)
  <2>1. Made(S, log, j, 0) => Begun(S, log, j)
    BY DEF Made, Begun
  <2>2. damage[j] \in {"none", "behind"} \/ run[p].op = "rebuild" =>
          IF Done(p) THEN Made(S, log, j, last) ELSE Begun(S, log, j)
    BY <1>1 DEF InLoop
  <2> HIDE DEF S, last, c2
  <2> QED
    BY <1>2, <1>3, <2>1, <2>2 DEF Counted
<1>5. CASE run[p].op = "rebuild"
  <2>1. pc'[p] = "reindex" /\ result'[p] = "ok" /\ run' = run
    BY <1>1, <1>5, CallSteps DEF EndProcessing
  <2>2. RebuildInLoop(p, j) /\ run[p].floor \in Nat
    BY <1>1, <1>5, TypesOf
  <2>3. /\ c2 # NoCheckpoint
        /\ run[p].floor > 1 => c2 >= run[p].floor - 1
    BY <1>1, <1>2, <2>2 DEF InLoop, RebuildInLoop, NoCheckpoint
  <2>4. Rebuilt(p, j)'
    BY <1>4, <1>5, <2>1, <2>2, <2>3 DEF Rebuilt, RebuildInLoop
  <2> QED
    BY <2>1, <2>4 DEF LeavesKnown, Knows
<1>6. CASE run[p].op # "rebuild"
  <2>1. pc'[p] = "idle"
    BY <1>1, <1>6, CallSteps DEF EndProcessing
  <2>2. ProcessingInLoop(p, j)
    BY <1>1, <1>6
  <2>3. damage[j] # "lost" /\ c2 > 0 => Complete(S, log, j, c2)
    BY <1>3, <2>2 DEF ProcessingInLoop
  <2>4. CASE j \in batch[p]
    <3>1. damage' = [damage EXCEPT ![j] = Harm(p)]
      BY <1>6, <2>4 DEF EndProcessing, Damaged
    <3>2. damage'[j] = Harm(p)
      BY <1>1, <3>1 DEF RunnerTypes
    <3>3. Harm(p) = IF damage[j] # "lost" THEN "repeats" ELSE "lost"
      BY DEF Harm
    <3>4. Resting(S, listed[j], c2, damage'[j], log, j)
      BY <2>3, <3>2, <3>3 DEF Resting
    <3> QED
      BY <2>1, <3>4 DEF LeavesKnown, AtRest
  <2>5. CASE j \notin batch[p]
    <3>1. damage' = damage
      BY <1>6, <2>5 DEF EndProcessing
    <3>2. damage[j] \in {"none", "behind"} => listed[j] = Listing(S)
      BY <2>2, <2>5 DEF ProcessingInLoop, IndexIsExact, Listing
    <3>3. Resting(S, listed[j], c2, damage[j], log, j)
      BY <1>4, <2>3, <3>2 DEF Resting
    <3> QED
      BY <2>1, <3>1, <3>3 DEF LeavesKnown, AtRest
  <2> QED
    BY <2>4, <2>5
<1> QED
  BY <1>5, <1>6

\* After the last event.
LEMMA EndOfEventsKnown ==
  ASSUME RunnerInvariant, NEW p \in Proc, NEW j, P(p) = j, EndOfEvents(p)
  PROVE  LeavesKnown(p, j)
<1>1. pc[p] = "load" /\ ~(At(p) < local[p].upto) /\ UNCHANGED <<log, batch, states, listed, checkpoint>>
  BY DEF EndOfEvents, MoreEvents, stored
<1>2. /\ RunnerTypes /\ j \in Proj /\ InLoop(p, j) /\ run[p].op \in {"rebuild", "process_events"}
      /\ IF run[p].op = "rebuild" THEN RebuildInLoop(p, j) ELSE ProcessingInLoop(p, j)
  BY <1>1, AtWork DEF Knows
<1>3. At(p) = local[p].upto /\ local[p].last \in Nat
  BY <1>1, <1>2, TypesOf DEF InLoop, At
<1>4. CASE local[p].last > 0
  <2>1. pc'[p] = "checkpoint" /\ UNCHANGED <<run, local, damage>>
    BY <1>2, <1>4, CallSteps DEF EndOfEvents
  <2>2. InLoop(p, j)'
    BY <1>1, <1>2, <2>1 DEF InLoop, Done, At
  <2>3. IF run[p].op = "rebuild" THEN RebuildInLoop(p, j)' ELSE ProcessingInLoop(p, j)'
    BY <1>1, <1>2, <2>1 DEF RebuildInLoop, ProcessingInLoop, Done, At, IndexIsExact
  <2> QED
    BY <1>3, <1>4, <2>1, <2>2, <2>3 DEF LeavesKnown, Knows, At
<1>5. CASE ~(local[p].last > 0)
  <2>1. EndProcessing(p, "ok") /\ local[p].last = 0
    BY <1>3, <1>5 DEF EndOfEvents
  <2> QED
    BY <1>1, <1>3, <2>1, ProcessingSucceeds
<1> QED
  BY <1>4, <1>5

\* The checkpoint is saved, or stays behind the states.
LEMMA SaveCheckpointKnown ==
  ASSUME RunnerInvariant, NEW p \in Proc, NEW j, P(p) = j, NEW failed \in BOOLEAN, SaveCheckpoint(p, failed)
  PROVE  LeavesKnown(p, j)
<1>1. pc[p] = "checkpoint" /\ UNCHANGED <<log, batch, states, listed>>
  BY DEF SaveCheckpoint
<1>2. RunnerTypes /\ j \in Proj /\ Knows(p, j)
  BY <1>1, AtWork
<1>3. CASE failed
  <2>1. EndProcessing(p, "error") /\ FilesKept(j)
    BY <1>1, <1>3 DEF SaveCheckpoint, FilesKept
  <2> QED
    BY <1>1, <2>1, ProcessingFails
<1>4. CASE ~failed
  <2>1. EndProcessing(p, "ok") /\ checkpoint' = [checkpoint EXCEPT ![j] = local[p].last]
    BY <1>4 DEF SaveCheckpoint
  <2>2. checkpoint'[j] = local[p].last
    BY <1>2, <2>1 DEF RunnerTypes
  <2>3. At(p) = local[p].upto /\ local[p].last > 0
    BY <1>1, <1>2 DEF Knows
  <2> QED
    BY <1>1, <2>1, <2>2, <2>3, ProcessingSucceeds
<1> QED
  BY <1>3, <1>4

\* The index is made from the states there are.
LEMMA RebuildIndexKnown ==
  ASSUME RunnerInvariant, NEW p \in Proc, NEW j, P(p) = j, NEW failed \in BOOLEAN, RebuildIndex(p, failed)
  PROVE  LeavesKnown(p, j)
<1>1. /\ pc[p] = "reindex" /\ UNCHANGED <<log, states, checkpoint, run>>
  BY DEF RebuildIndex
<1>2. RunnerTypes /\ j \in Proj /\ Knows(p, j)
  BY <1>1, AtWork
<1>3. pc'[p] = "release"
  BY <1>2, CallSteps DEF RebuildIndex
<1>4. CASE failed
  <2>1. result'[p] = "error" /\ Damaged(p) /\ FilesKept(j)
    BY <1>1, <1>2, <1>4, CallSteps DEF RebuildIndex, FilesKept
  <2>2. damage'[j] = Harm(p) /\ AtRest(j)'
    BY <1>1, <2>1, DamagedRests
  <2>3. Harm(p) # "none"
    BY <1>1 DEF Harm
  <2> QED
    BY <1>3, <2>1, <2>2, <2>3 DEF LeavesKnown, Knows, Failed
<1>5. CASE ~failed
  <2>1. /\ listed' = [listed EXCEPT ![j] = {k \in Key : states[j][k] # << >>}]
        /\ UNCHANGED <<result, damage>>
    BY <1>5 DEF RebuildIndex
  <2>2. listed'[j] = Listing(states[j])
    BY <1>2, <2>1 DEF RunnerTypes, Listing
  <2>3. IndexIsExact(j)'
    BY <1>1, <2>2 DEF IndexIsExact, Listing
  <2>4. CASE result[p] = "ok"
    <3>1. Rebuilt(p, j)'
      BY <1>1, <1>2, <2>4 DEF Knows, Rebuilt
    <3> QED
      BY <1>3, <2>1, <2>3, <2>4, <3>1 DEF LeavesKnown, Knows
  <2>5. CASE result[p] # "ok"
    <3>1. AtRest(j) /\ damage[j] # "none"
      BY <1>1, <1>2, <2>5 DEF Knows, Failed
    <3>2. Resting(states[j], Listing(states[j]), checkpoint[j], damage[j], log, j)
      BY <3>1 DEF AtRest, Resting
    <3>3. AtRest(j)'
      BY <1>1, <2>1, <2>2, <3>2 DEF AtRest
    <3> QED
      BY <1>3, <2>1, <2>5, <3>1, <3>3 DEF LeavesKnown, Knows, Failed
  <2> QED
    BY <2>4, <2>5
<1> QED
  BY <1>4, <1>5

\* The end of a rebuild.
LEMMA ReleaseKnown ==
  ASSUME RunnerInvariant, NEW p \in Proc, NEW j, P(p) = j, ReleaseProjectionLock(p)
  PROVE  LeavesKnown(p, j)
<1>1. pc[p] = "release" /\ UNCHANGED <<log, states, listed, checkpoint>>
  BY DEF ReleaseProjectionLock
<1>2. RunnerTypes /\ Control /\ CheckpointsInLog /\ j \in Proj /\ Knows(p, j)
  BY <1>1, AtWork
<1>3. pc'[p] = "idle"
  BY <1>2, CallSteps DEF ReleaseProjectionLock
<1>4. CASE result[p] = "error"
  <2>1. damage' = damage /\ AtRest(j)
    BY <1>1, <1>2, <1>4 DEF ReleaseProjectionLock, Knows, Failed
  <2> QED
    BY <1>1, <1>3, <2>1 DEF LeavesKnown, AtRest
<1>5. CASE result[p] # "error"
  <2>1. result[p] = "ok"
    BY <1>1, <1>2, <1>5 DEF Control, ControlOf
  <2>2. Counted(states[j], log, j, checkpoint[j]) /\ listed[j] = Listing(states[j])
    BY <1>1, <1>2, <2>1 DEF Knows, Rebuilt, IndexIsExact, Listing
  <2>3. /\ checkpoint[j] \in Int /\ log \in Seq(Event)
        /\ checkpoint[j] > 0 => checkpoint[j] < Len(log)
    BY <1>2, TypesOf DEF CheckpointsInLog
  <2>4. Resting(states[j], Listing(states[j]), checkpoint[j], damage'[j], log, j)
    BY <2>2, <2>3, RestingMade
  <2> QED
    BY <1>1, <1>3, <2>2, <2>4 DEF LeavesKnown, AtRest
<1> QED
  BY <1>4, <1>5

\* Where the lock excludes, who acquires it finds nobody at work on its projection.
LEMMA AcquiredAlone ==
  ASSUME RunnerInvariant, RebuildsExclude', NEW p \in Proc, NEW j, P(p) = j, AcquireProjectionLock(p)
  PROVE  j \in Proj /\ \A q \in Proc : ~Works(q, j)
<1>1. RunnerTypes /\ ProcessingAlone /\ Control /\ pc[p] = "acquire" /\ run' = run
  BY DEF RunnerInvariant, AcquireProjectionLock
<1>2. j \in Proj /\ run[p].op = "rebuild"
  BY <1>1 DEF RunnerTypes, P, Control, ControlOf
<1>3. pc'[p] = "clear" /\ \A q \in Proc : q # p => pc'[q] = pc[q]
  BY <1>1, CallFrame DEF AcquireProjectionLock, Go, RunnerTypes
<1>4. ASSUME NEW q \in Proc, Works(q, j) PROVE FALSE
  <2>1. run[q].op \in {"rebuild", "process_events"} /\ pc[q] \notin {"idle", "crashed", "acquire", "unlink"} /\ P(q) = j
    BY <1>1, <1>4 DEF RunnerTypes, Works, Busy
  <2>2. q # p
    BY <1>1, <2>1
  <2>3. CASE run[q].op = "rebuild"
    <3>1. Inside(p, j)' /\ Inside(q, j)'
      BY <1>1, <1>2, <1>3, <2>1, <2>2, <2>3 DEF Inside, Busy, P
    <3> QED
      BY <1>2, <2>2, <3>1 DEF RebuildsExclude
  <2>4. CASE run[q].op = "process_events"
    <3>1. Busy(p, P(q))
      BY <1>1, <2>1 DEF Busy
    <3> QED
      BY <1>1, <2>1, <2>2, <2>4, <3>1 DEF ProcessingAlone
  <2> QED
    BY <2>1, <2>3, <2>4
<1> QED
  BY <1>2, <1>4

\* Behind the lock it is alone.
LEMMA AcquireKnown ==
  ASSUME RunnerInvariant, RebuildsExclude', RunnerTypes', NEW p \in Proc, AcquireProjectionLock(p)
  PROVE  \A i \in Proj : Known(i)'
<1>1. PICK j : j = P(p)
  OBVIOUS
<1>2. /\ RunnerTypes /\ RebuildsExclude /\ ProcessingAlone /\ Control
      /\ pc[p] = "acquire" /\ lock[j] = Free /\ UNCHANGED <<log, states, listed, checkpoint, damage, run>>
      /\ \A i \in Proj : Known(i)
  BY <1>1 DEF RunnerInvariant, AcquireProjectionLock
<1>3. j \in Proj
  BY <1>1, <1>2 DEF RunnerTypes, P
<1>4. pc'[p] = "clear"
  BY <1>2, CallSteps DEF AcquireProjectionLock
<1>5. \A q \in Proc : ~Works(q, j)
  BY <1>1, AcquiredAlone
<1>6. AtRest(j)
  BY <1>2, <1>3, <1>5 DEF Known
<1>7. AtRest(j)' /\ Knows(p, j)'
  BY <1>2, <1>4, <1>6 DEF AtRest, Knows
<1>8. StepOf(p, j)
  BY <1>1, <1>2, StepFrame DEF RunnerStep
<1>9. \A i \in Proj : i # j => ~Works(p, i) /\ ~Works(p, i)'
  BY <1>1, <1>2 DEF Works, Busy, P
<1> QED
  BY <1>3, <1>5, <1>7, <1>8, <1>9, KnownAfterStep

\* A step of one process keeps the invariant, where the lock excludes.
LEMMA RunnerStepInvariant ==
  ASSUME RunnerInvariant, RebuildsExclude', NEW p \in Proc, RunnerStep(p)
  PROVE  RunnerInvariant'
<1>1. RunnerTypes' /\ RebuildsExclude' /\ ProcessingAlone' /\ Control' /\ CheckpointsInLog'
  BY RunnerTypesStay, RunnerStepAlone, RunnerStepControl, RunnerStepCheckpoints
<1>2. PICK j : P(p) = j
  OBVIOUS
<1>3. \A i \in Proj : Known(i)'
  <2>1. CASE AcquireProjectionLock(p)
    BY <1>1, <2>1, AcquireKnown
  <2>2. CASE JudgeLock(p) \/ BreakLock(p)
    <3>1. RunnerTypes /\ Control /\ CheckpointsInLog
      BY DEF RunnerInvariant
    <3>2. /\ UNCHANGED <<log, states, listed, checkpoint, run, batch, local, result, damage>>
          /\ pc[p] \in {"acquire", "unlink"} /\ pc'[p] \in {"acquire", "unlink"}
          /\ \A q \in Proc : q # p => pc'[q] = pc[q]
      BY <2>2, <3>1, CallFrame DEF JudgeLock, BreakLock, stored, Go, RunnerTypes
    <3>3. Grown(log', log)
      BY <3>2 DEF Grown
    <3> SUFFICES ASSUME NEW i \in Proj PROVE Known(i)'
      OBVIOUS
    <3>4. Known(i) /\ Kept(i) /\ \A q \in Proc : (Works(q, i)' <=> Works(q, i)) /\ (Works(q, i) => KeptBy(q))
      BY <3>2 DEF RunnerInvariant, Kept, KeptBy, Works, Busy, P
    <3> QED
      BY <1>1, <3>1, <3>3, <3>4, KnownStays
  <2>3. ASSUME pc[p] \notin {"acquire", "unlink"}, LeavesKnown(p, j) PROVE \A i \in Proj : Known(i)'
    BY <1>1, <1>2, <2>3, KnownAfterWork
  <2>4. CASE ClearStore(p)
    BY <1>2, <2>3, <2>4, ClearStoreKnown DEF ClearStore
  <2>5. CASE PassEvent(p)
    BY <1>2, <2>3, <2>5, PassEventKnown DEF PassEvent, MoreEvents
  <2>6. CASE EndOfEvents(p)
    BY <1>2, <2>3, <2>6, EndOfEventsKnown DEF EndOfEvents
  <2>7. CASE ReleaseProjectionLock(p)
    BY <1>2, <2>3, <2>7, ReleaseKnown DEF ReleaseProjectionLock
  <2>8. ASSUME NEW failed \in BOOLEAN, ResetCheckpoint(p, failed) PROVE \A i \in Proj : Known(i)'
    BY <1>2, <2>3, <2>8, ResetCheckpointKnown DEF ResetCheckpoint
  <2>9. ASSUME NEW failed \in BOOLEAN, ReadAllEvents(p, failed) PROVE \A i \in Proj : Known(i)'
    BY <1>2, <2>3, <2>9, ReadAllEventsKnown DEF ReadAllEvents
  <2>10. ASSUME NEW failed \in BOOLEAN, StartProcessing(p, failed) PROVE \A i \in Proj : Known(i)'
    BY <1>2, <2>3, <2>10, StartProcessingKnown DEF StartProcessing
  <2>11. ASSUME NEW failed \in BOOLEAN, LoadState(p, failed) PROVE \A i \in Proj : Known(i)'
    BY <1>2, <2>3, <2>11, LoadStateKnown DEF LoadState, MoreEvents
  <2>12. ASSUME NEW failed \in BOOLEAN, SaveState(p, failed) PROVE \A i \in Proj : Known(i)'
    BY <1>2, <2>3, <2>12, SaveStateKnown DEF SaveState
  <2>13. ASSUME NEW failed \in BOOLEAN, SaveCheckpoint(p, failed) PROVE \A i \in Proj : Known(i)'
    BY <1>2, <2>3, <2>13, SaveCheckpointKnown DEF SaveCheckpoint
  <2>14. ASSUME NEW failed \in BOOLEAN, RebuildIndex(p, failed) PROVE \A i \in Proj : Known(i)'
    BY <1>2, <2>3, <2>14, RebuildIndexKnown DEF RebuildIndex
  <2> QED
    BY <2>1, <2>2, <2>4, <2>5, <2>6, <2>7, <2>8, <2>9, <2>10, <2>11, <2>12, <2>13, <2>14 DEF RunnerStep
<1> QED
  BY <1>1, <1>3 DEF RunnerInvariant

-----------------------------------------------------------------------------
(* Calls, crashes, and what others do *)

\* The log grows.
LEMMA AppendEventInvariant ==
  ASSUME RunnerInvariant, AppendEvent
  PROVE  RunnerInvariant'
<1>1. RunnerTypes /\ Control /\ CheckpointsInLog /\ \A i \in Proj : Known(i)
  BY DEF RunnerInvariant
<1>2. PICK e \in Event : log' = Append(log, e)
  BY RunnerAssumption DEF AppendEvent
<1>3. UNCHANGED <<states, listed, checkpoint, lock, pc, run, batch, local, result, damage, runs>>
  BY DEF AppendEvent, stored
<1>4. log \in Seq(Event) /\ log' \in Seq(Event) /\ Len(log) \in Nat /\ Len(log') = Len(log) + 1 /\ Grown(log', log)
  BY <1>1, <1>2, AppendProperties, LenProperties DEF RunnerTypes, Grown
<1>5. RunnerTypes'
  BY <1>1, <1>3, <1>4 DEF RunnerTypes
<1>6. RebuildsExclude' /\ ProcessingAlone'
  BY <1>3 DEF RunnerInvariant, RebuildsExclude, ProcessingAlone, Inside, Busy, P
<1>7. \A p \in Proc : ControlOf(p) => ControlOf(p)'
  <2> SUFFICES ASSUME NEW p \in Proc, ControlOf(p) PROVE ControlOf(p)'
    OBVIOUS
  <2>1. pc[p] \notin {"idle", "crashed"} => run[p].floor <= Len(log')
    <3>1. pc[p] \notin {"idle", "crashed"} => run[p].floor \in Nat /\ run[p].floor <= Len(log)
      BY <1>1 DEF RunnerTypes, ControlOf
    <3> QED
      BY <1>4, <3>1
  <2> QED
    BY <1>3, <2>1 DEF ControlOf
<1>8. CheckpointsInLog'
  <2>1. \A i \in Proj : checkpoint[i] \in Int
    BY <1>1 DEF RunnerTypes, NoCheckpoint
  <2> QED
    BY <1>1, <1>3, <1>4, <2>1 DEF CheckpointsInLog
<1>9. ASSUME NEW i \in Proj PROVE Known(i)'
  <2>1. Kept(i) /\ \A q \in Proc : (Works(q, i)' <=> Works(q, i)) /\ KeptBy(q)
    BY <1>3 DEF Kept, KeptBy, Works, Busy, P
  <2> QED
    BY <1>1, <1>4, <1>5, <2>1, KnownStays
<1> QED
  BY <1>1, <1>5, <1>6, <1>7, <1>8, <1>9 DEF RunnerInvariant, Control

\* Calls of rebuild by several processes, or one of process_events.
LEMMA CallInvariant ==
  ASSUME Serialised, RunnerInvariant, NEW S \in SUBSET Proc,
         NEW asked \in [S -> [op : {"rebuild", "process_events"}, proj : Proj]], Call(asked), runs' \in Nat,
         \A p \in S : asked[p].op = "process_events" => S = {p}
  PROVE  RunnerInvariant'
<1>1. RunnerTypes /\ RebuildsExclude /\ ProcessingAlone /\ Control /\ CheckpointsInLog /\ \A i \in Proj : Known(i)
  BY DEF RunnerInvariant
<1>2. /\ UNCHANGED <<log, states, listed, checkpoint, lock, batch, local, damage>>
      /\ \A p \in S : pc[p] = "idle" /\ MayCall(asked[p].op, asked[p].proj)
  BY DEF Call, stored
<1>3. /\ \A p \in Proc \ S : pc'[p] = pc[p] /\ run'[p] = run[p] /\ result'[p] = result[p]
      /\ \A p \in S : /\ run'[p] = [op |-> asked[p].op, proj |-> asked[p].proj, floor |-> Len(log)]
                      /\ pc'[p] = IF asked[p].op = "rebuild" THEN "acquire" ELSE "read"
                      /\ result'[p] = "none"
  BY DEF Call
<1>4. Len(log) \in Nat
  BY <1>1, LenProperties DEF RunnerTypes
<1>5. \A p \in S : /\ run'[p] \in [op : {"rebuild", "process_events"}, proj : Proj, floor : Nat]
                   /\ run'[p].op = asked[p].op /\ run'[p].proj = asked[p].proj /\ run'[p].floor = Len(log)
                   /\ asked[p].op \in {"rebuild", "process_events"} /\ asked[p].proj \in Proj
  <2> SUFFICES ASSUME NEW p \in S
               PROVE  /\ run'[p] \in [op : {"rebuild", "process_events"}, proj : Proj, floor : Nat]
                      /\ run'[p].op = asked[p].op /\ run'[p].proj = asked[p].proj /\ run'[p].floor = Len(log)
                      /\ asked[p].op \in {"rebuild", "process_events"} /\ asked[p].proj \in Proj
    OBVIOUS
  <2>1. asked[p].op \in {"rebuild", "process_events"} /\ asked[p].proj \in Proj
    OBVIOUS
  <2>2. run'[p] = [op |-> asked[p].op, proj |-> asked[p].proj, floor |-> Len(log)]
    BY <1>3
  <2> QED
    BY <1>4, <2>1, <2>2
<1>6. RunnerTypes'
  <2>1. pc' \in [Proc -> Labels] /\ run' = [p \in Proc |-> run'[p]] /\ result' \in [Proc -> {"none", "ok", "error"}]
    BY <1>1 DEF Call, RunnerTypes, Labels
  <2>2. \A p \in Proc : pc'[p] # "idle" =>
          run'[p] \in [op : {"rebuild", "process_events"}, proj : Proj, floor : Nat]
    BY <1>1, <1>3, <1>5 DEF RunnerTypes
  <2> QED
    BY <1>1, <1>2, <2>1, <2>2 DEF RunnerTypes
<1>7. RebuildsExclude'
  <2>1. ASSUME NEW p \in Proc, NEW i \in Proj, Inside(p, i)' PROVE Inside(p, i)
    <3>1. p \notin S
      BY <1>3, <1>5, <2>1 DEF Inside, Busy
    <3> QED
      BY <1>3, <2>1, <3>1 DEF Inside, Busy, P
  <2> QED
    BY <1>1, <2>1 DEF RebuildsExclude
<1>8. \A p \in S : \A q \in Proc : Busy(q, asked[p].proj) =>
        asked[p].op = "rebuild" /\ run[q].op = "rebuild" /\ q \notin S
  BY <1>2 DEF MayCall, Busy
<1>9. ProcessingAlone'
  <2> SUFFICES ASSUME NEW p \in Proc, NEW q \in Proc, pc'[p] \notin {"idle", "crashed"},
                      run'[p].op = "process_events", Busy(q, P(p))'
               PROVE  q = p
    BY DEF ProcessingAlone
  <2>1. pc'[q] \notin {"idle", "crashed"} /\ run'[q].proj = run'[p].proj
    BY DEF Busy, P
  <2>2. CASE p \in S
    <3>1. S = {p}
      BY <1>5, <2>2
    <3>2. ASSUME q # p PROVE FALSE
      <4>1. q \notin S /\ Busy(q, asked[p].proj)
        BY <1>3, <1>5, <2>1, <2>2, <3>1, <3>2 DEF Busy, P
      <4> QED
        BY <1>5, <1>8, <2>2, <4>1
    <3> QED
      BY <3>2
  <2>3. CASE p \notin S
    <3>1. pc[p] \notin {"idle", "crashed"} /\ run[p].op = "process_events" /\ run'[p] = run[p]
      BY <1>3, <2>3
    <3>2. CASE q \in S
      <4>1. Busy(p, asked[q].proj)
        BY <1>5, <2>1, <3>1, <3>2 DEF Busy, P
      <4> QED
        BY <1>8, <3>1, <3>2, <4>1
    <3>3. CASE q \notin S
      <4>1. Busy(q, P(p))
        BY <1>3, <2>1, <3>1, <3>3 DEF Busy, P
      <4> QED
        BY <1>1, <3>1, <4>1 DEF ProcessingAlone
    <3> QED
      BY <3>2, <3>3
  <2> QED
    BY <2>2, <2>3
<1>10. Control'
  <2> SUFFICES ASSUME NEW p \in Proc PROVE ControlOf(p)'
    BY DEF Control
  <2>1. ControlOf(p)
    BY <1>1 DEF Control
  <2>2. CASE p \in S
    <3>1. local[p].next = 0
      BY <1>2, <2>1, <2>2 DEF ControlOf
    <3> QED
      BY <1>2, <1>3, <1>4, <1>5, <2>2, <3>1 DEF ControlOf
  <2>3. CASE p \notin S
    BY <1>2, <1>3, <2>1, <2>3 DEF ControlOf
  <2> QED
    BY <2>2, <2>3
<1>11. CheckpointsInLog'
  BY <1>1, <1>2 DEF CheckpointsInLog
<1>12. Grown(log', log) /\ \A i \in Proj : Kept(i)
  BY <1>2 DEF Grown, Kept
<1>13. \A p \in Proc \ S : KeptBy(p) /\ \A i \in Proj : Works(p, i)' <=> Works(p, i)
  BY <1>2, <1>3 DEF KeptBy, Works, Busy, P
<1>14. ASSUME NEW i \in Proj PROVE Known(i)'
  <2>1. CASE \A p \in S : asked[p].op = "rebuild"
    <3>1. \A p \in S : ~Works(p, i) /\ ~Works(p, i)'
      BY <1>2, <1>3, <2>1 DEF Works, Busy
    <3> QED
      BY <1>1, <1>6, <1>12, <1>13, <3>1, KnownStays
  <2>2. CASE ~\A p \in S : asked[p].op = "rebuild"
    <3>1. PICK p \in S : asked[p].op = "process_events"
      BY <1>5, <2>2
    <3>2. PICK j \in Proj : j = asked[p].proj
      BY <1>5
    <3>3. S = {p}
      BY <3>1
    <3>4. \A q \in Proc : ~Works(q, j)
      BY <1>8, <3>1, <3>2 DEF Works
    <3>5. StepOf(p, j)
      BY <1>2, <1>12, <1>13, <3>3 DEF StepOf
    <3>6. \A l \in Proj : l # j => ~Works(p, l) /\ ~Works(p, l)'
      BY <1>2, <1>5, <3>2 DEF Works, Busy, P
    <3>7. AtRest(j)
      BY <1>1, <3>4 DEF Known
    <3>8. AtRest(j)'
      BY <1>2, <3>7 DEF AtRest
    <3>9. pc'[p] = "read" /\ run'[p].op = "process_events"
      BY <1>3, <1>5, <3>1
    <3>10. Knows(p, j)'
      BY <3>8, <3>9 DEF Knows
    <3> QED
      BY <1>6, <3>4, <3>5, <3>6, <3>8, <3>10, KnownAfterStep
  <2> QED
    BY <2>1, <2>2
<1> QED
  BY <1>6, <1>7, <1>9, <1>10, <1>11, <1>14 DEF RunnerInvariant

\* Processes die at whatever they were doing.
LEMMA KillInvariant ==
  ASSUME RunnerInvariant, NEW S \in SUBSET Proc, Kill(S),
         damage' \in [Proj -> {"none", "behind", "repeats", "lost"}],
         \A j \in Proj : \/ \E q \in S : Works(q, j) /\ damage'[j] = Harm(q)
                         \/ damage'[j] = damage[j] /\ \A q \in S : ~Works(q, j)
  PROVE  RunnerInvariant'
<1>1. RunnerTypes /\ RebuildsExclude /\ ProcessingAlone /\ Control /\ CheckpointsInLog /\ \A i \in Proj : Known(i)
  BY DEF RunnerInvariant
<1>2. /\ UNCHANGED <<log, states, listed, checkpoint, run, result, runs>>
      /\ lock' \in [Proj -> Proc \cup {Free, Orphan}]
      /\ pc' = [p \in Proc |-> IF p \in S /\ pc[p] # "idle" THEN "crashed" ELSE pc[p]]
      /\ local' = [p \in Proc |-> IF p \in S THEN NoLocals ELSE local[p]]
      /\ batch' = [p \in Proc |-> IF p \in S THEN {} ELSE batch[p]]
  BY <1>1 DEF Kill, RunnerTypes
<1>3. NoLocals \in [upto : Nat, next : Nat, last : Nat, state : Seq(Application)] /\ NoLocals.next = 0
  BY NothingApplied DEF NoLocals, Locals, StartOfLog
<1>4. RunnerTypes'
  <2>1. pc' \in [Proc -> Labels] /\ batch' \in [Proc -> SUBSET Proj]
    BY <1>1, <1>2 DEF RunnerTypes, Labels
  <2>2. local' \in [Proc -> [upto : Nat, next : Nat, last : Nat, state : Seq(Application)]]
    <3> DEFINE T == [upto : Nat, next : Nat, last : Nat, state : Seq(Application)]
    <3>1. NoLocals \in T /\ local \in [Proc -> T]
      BY <1>1, <1>3 DEF RunnerTypes
    <3> HIDE DEF T
    <3>2. local' \in [Proc -> T]
      BY <1>2, <3>1
    <3> QED
      BY <3>2 DEF T
  <2>3. \A p \in Proc : pc'[p] # "idle" =>
          run'[p] \in [op : {"rebuild", "process_events"}, proj : Proj, floor : Nat]
    BY <1>1, <1>2 DEF RunnerTypes
  <2> QED
    BY <1>1, <1>2, <2>1, <2>2, <2>3 DEF RunnerTypes
<1>5. \A q \in Proc : pc'[q] \notin {"idle", "crashed"} =>
        pc'[q] = pc[q] /\ run'[q] = run[q] /\ q \notin S
  BY <1>2
<1>6. RebuildsExclude' /\ ProcessingAlone'
  BY <1>1, <1>2, <1>5, AloneStays
<1>7. ASSUME NEW p \in Proc PROVE ControlOf(p)'
  <2>1. ControlOf(p)
    BY <1>1 DEF Control
  <2>2. CASE p \in S
    <3>1. local'[p].next = 0 /\ pc'[p] \in {"idle", "crashed"}
      BY <1>2, <1>3, <2>2
    <3> QED
      BY <3>1 DEF ControlOf
  <2>3. CASE p \notin S
    BY <1>2, <2>1, <2>3 DEF ControlOf
  <2> QED
    BY <2>2, <2>3
<1>8. CheckpointsInLog'
  BY <1>1, <1>2 DEF CheckpointsInLog
<1>9. \A p \in Proc \ S : KeptBy(p) /\ \A i \in Proj : Works(p, i)' <=> Works(p, i)
  BY <1>2 DEF KeptBy, Works, Busy, P
<1>10. \A p \in S : \A i \in Proj : ~Works(p, i)'
  BY <1>5 DEF Works, Busy
<1>11. ASSUME NEW i \in Proj PROVE Known(i)'
  <2>1. CASE damage'[i] = damage[i] /\ \A q \in S : ~Works(q, i)
    <3>1. Grown(log', log) /\ Kept(i)
      BY <1>2, <2>1 DEF Grown, Kept
    <3> QED
      BY <1>1, <1>4, <1>9, <1>10, <2>1, <3>1, KnownStays
  <2>2. CASE \E q \in S : Works(q, i) /\ damage'[i] = Harm(q)
    <3>1. PICK q \in S : Works(q, i) /\ damage'[i] = Harm(q)
      BY <2>2
    <3>2. P(q) = i /\ Knows(q, i)
      BY <1>1, <3>1 DEF Works, Busy, Known
    <3>3. Resting(states[i], listed[i], checkpoint[i], Harm(q), log, i)
      BY <1>1, <3>1, <3>2, HarmLeaves
    <3>4. AtRest(i)'
      BY <1>2, <3>1, <3>3 DEF AtRest
    <3>5. \A p \in Proc : ~Works(p, i)'
      BY <1>1, <1>9, <1>10, <3>1, WorksAlone
    <3> QED
      BY <3>4, <3>5 DEF Known
  <2> QED
    BY <2>1, <2>2
<1> QED
  BY <1>1, <1>4, <1>6, <1>7, <1>8, <1>11 DEF RunnerInvariant, Control

\* One process dies.
LEMMA CrashInvariant ==
  ASSUME RunnerInvariant, NEW p \in Proc, Crash(p)
  PROVE  RunnerInvariant'
<1>1. RunnerTypes /\ pc[p] \notin {"idle", "crashed"} /\ damage' = [damage EXCEPT ![P(p)] = Harm(p)] /\ Kill({p})
  BY DEF RunnerInvariant, Crash, Kill, Damaged
<1>2. damage' \in [Proj -> {"none", "behind", "repeats", "lost"}]
  BY <1>1, DamagedTypes DEF Crash
<1>3. P(p) \in Proj
  BY <1>1 DEF RunnerTypes, P
<1>4. ASSUME NEW j \in Proj
      PROVE  \/ \E q \in {p} : Works(q, j) /\ damage'[j] = Harm(q)
             \/ damage'[j] = damage[j] /\ \A q \in {p} : ~Works(q, j)
  <2>1. CASE j # P(p)
    BY <1>1, <2>1 DEF RunnerTypes, Works, Busy
  <2>2. CASE j = P(p) /\ pc[p] \notin {"acquire", "unlink"}
    BY <1>1, <2>2 DEF RunnerTypes, Works, Busy
  <2>3. CASE j = P(p) /\ pc[p] \in {"acquire", "unlink"}
    <3>1. Harm(p) = damage[j]
      BY <2>3 DEF Harm
    <3> QED
      BY <1>1, <2>3, <3>1 DEF RunnerTypes, Works
  <2> QED
    BY <2>1, <2>2, <2>3
<1> QED
  BY <1>1, <1>2, <1>4, KillInvariant

\* Those that died come back.
LEMMA RestartInvariant ==
  ASSUME RunnerInvariant, NEW S \in SUBSET Proc, \A p \in S : pc[p] \in {"idle", "crashed"},
         pc' = [p \in Proc |-> IF p \in S THEN "idle" ELSE pc[p]],
         run' = [p \in Proc |-> IF p \in S THEN NoRun ELSE run[p]],
         result' \in [Proc -> {"none", "ok", "error"}], \A p \in Proc \ S : result'[p] = result[p],
         UNCHANGED <<log, states, listed, checkpoint, lock, batch, local, damage, runs>>
  PROVE  RunnerInvariant'
<1>1. RunnerTypes /\ RebuildsExclude /\ ProcessingAlone /\ Control /\ CheckpointsInLog /\ \A i \in Proj : Known(i)
  BY DEF RunnerInvariant
<1>2. RunnerTypes'
  <2>1. pc' \in [Proc -> Labels] /\ run' = [p \in Proc |-> run'[p]]
    BY <1>1 DEF RunnerTypes, Labels
  <2>2. \A p \in Proc : pc'[p] # "idle" =>
          run'[p] \in [op : {"rebuild", "process_events"}, proj : Proj, floor : Nat]
    BY <1>1 DEF RunnerTypes
  <2> QED
    BY <1>1, <2>1, <2>2 DEF RunnerTypes
<1>3. \A q \in Proc : pc'[q] \notin {"idle", "crashed"} => pc'[q] = pc[q] /\ run'[q] = run[q] /\ q \notin S
  OBVIOUS
<1>4. RebuildsExclude' /\ ProcessingAlone'
  BY <1>1, <1>3, AloneStays
<1>5. \A p \in Proc : ControlOf(p) => ControlOf(p)'
  BY DEF ControlOf
<1>6. CheckpointsInLog'
  BY <1>1 DEF CheckpointsInLog
<1>7. ASSUME NEW i \in Proj PROVE Known(i)'
  <2>1. Grown(log', log) /\ Kept(i)
    BY DEF Grown, Kept
  <2>2. \A p \in Proc \ S : KeptBy(p) /\ (Works(p, i)' <=> Works(p, i))
    BY DEF KeptBy, Works, Busy, P
  <2>3. \A p \in S : ~Works(p, i) /\ ~Works(p, i)'
    BY DEF Works, Busy
  <2> QED
    BY <1>1, <1>2, <2>1, <2>2, <2>3, KnownStays
<1> QED
  BY <1>1, <1>2, <1>4, <1>5, <1>6, <1>7 DEF RunnerInvariant, Control

\* Nothing of the runners changes.
LEMMA IdleInvariant ==
  ASSUME RunnerInvariant, UNCHANGED <<log, states, listed, checkpoint, lock, pc, run, batch, local, result, damage, runs>>
  PROVE  RunnerInvariant'
<1>1. RunnerTypes' /\ RebuildsExclude' /\ ProcessingAlone' /\ Control' /\ CheckpointsInLog'
  BY DEF RunnerInvariant, RunnerTypes, RebuildsExclude, ProcessingAlone, Control, ControlOf, CheckpointsInLog, Inside, Busy, P
<1>2. ASSUME NEW i \in Proj PROVE Known(i)'
  <2>1. Grown(log', log) /\ Kept(i) /\ Known(i) /\ RunnerTypes /\ Control /\ CheckpointsInLog
    BY DEF Grown, Kept, RunnerInvariant
  <2>2. \A q \in Proc : (Works(q, i)' <=> Works(q, i)) /\ KeptBy(q)
    BY DEF KeptBy, Works, Busy, P
  <2> QED
    BY <1>1, <2>1, <2>2, KnownStays
<1> QED
  BY <1>1, <1>2 DEF RunnerInvariant

\* The initial state.
LEMMA RunnerInitInvariant == RunnerInit => RunnerInvariant
<1> SUFFICES ASSUME RunnerInit PROVE RunnerInvariant
  OBVIOUS
<1>1. Emptied \in [Key -> Seq(Application)] /\ log \in Seq(Event)
  BY NothingApplied DEF RunnerInit, Emptied
<1>2. NoLocals \in [upto : Nat, next : Nat, last : Nat, state : Seq(Application)] /\ NoLocals.next = 0
  BY NothingApplied DEF NoLocals, Locals, StartOfLog
<1>3. states = [j \in Proj |-> Emptied]
  BY DEF RunnerInit, Emptied
<1>4. local \in [Proc -> [upto : Nat, next : Nat, last : Nat, state : Seq(Application)]]
  BY <1>2 DEF RunnerInit
<1>5. RunnerTypes
  BY <1>1, <1>3, <1>4 DEF RunnerInit, RunnerTypes, Labels
<1>6. RebuildsExclude /\ ProcessingAlone /\ Control
  BY <1>2 DEF RunnerInit, RebuildsExclude, ProcessingAlone, Control, ControlOf, Inside, Busy
<1>7. CheckpointsInLog
  BY DEF RunnerInit, CheckpointsInLog, NoCheckpoint
<1>8. ASSUME NEW j \in Proj PROVE Known(j)
  <2>1. Resting(Emptied, {}, NoCheckpoint, "none", log, j)
    <3>1. \A c \in Int : \A d : c <= 0 => Resting(Emptied, {}, c, d, log, j)
      BY <1>1, RestingEmpty, Zenon
    <3>2. NoCheckpoint \in Int /\ NoCheckpoint <= 0
      BY DEF NoCheckpoint
    <3> QED
      BY <3>1, <3>2
  <2>2. AtRest(j)
    BY <1>3, <2>1 DEF AtRest, RunnerInit
  <2> QED
    BY <2>2 DEF Known, Works, Busy, RunnerInit
<1> QED
  BY <1>5, <1>6, <1>7, <1>8 DEF RunnerInvariant

-----------------------------------------------------------------------------
(* The rebuilder *)

\* The tasks of the rebuilder only rebuild, each its own projection, and die with it.
RebuilderInvariant ==
  /\ RunnerInvariant
  /\ phase \in {"idle", "check", "wait", "crashed"}
  /\ todo \subseteq Proj /\ chosen \subseteq Proj
  /\ \A p \in Task : pc[p] # "idle" => run[p].op = "rebuild" /\ TaskOf(P(p)) = p
  /\ phase = "crashed" => \A p \in Task : pc[p] \in {"idle", "crashed"}

\* The calls of the tasks when rebuild_all has chosen.
LEMMA LaunchCalls ==
  ASSUME RebuilderInvariant, Launch
  PROVE  \E S \in SUBSET Task : \E asked \in [S -> [op : {"rebuild"}, proj : Proj]] :
           /\ Call(asked)
           /\ S = {TaskOf(j) : j \in chosen}
           /\ \A p \in S : TaskOf(asked[p].proj) = p /\ asked[p].proj \in chosen
<1> DEFINE S == {TaskOf(j) : j \in chosen}
           asked == [p \in S |-> [op |-> "rebuild", proj |-> CHOOSE j \in chosen : TaskOf(j) = p]]
<1>1. S \in SUBSET Task /\ chosen \subseteq Proj
  BY RebuilderAssumption DEF RebuilderInvariant
<1>2. \A p \in S : (CHOOSE j \in chosen : TaskOf(j) = p) \in chosen /\ TaskOf(CHOOSE j \in chosen : TaskOf(j) = p) = p
  OBVIOUS
<1>3. \A p \in S : asked[p].proj \in chosen /\ TaskOf(asked[p].proj) = p
  BY <1>2
<1>4. asked \in [S -> [op : {"rebuild"}, proj : Proj]]
  BY <1>1, <1>2
<1>5. Call(asked)
  BY DEF Launch
<1> QED
  BY <1>1, <1>3, <1>4, <1>5

\* Every step of the rebuilder is one of the runners, or none.
LEMMA RunnerInvariantStays ==
  ASSUME Serialised, RebuildsExclude', RebuilderInvariant, [RebuilderNext]_allVars
  PROVE  RunnerInvariant'
<1>1. RunnerInvariant /\ RunnerTypes
  BY DEF RebuilderInvariant, RunnerInvariant
<1>2. ASSUME NEW p \in Proc, RunnerStep(p) PROVE RunnerInvariant'
  BY <1>1, <1>2, RunnerStepInvariant
<1>3. ASSUME NEW p \in Proc, Crash(p) PROVE RunnerInvariant'
  BY <1>1, <1>3, CrashInvariant
<1>4. ASSUME NEW p \in Proc, Restart(p) PROVE RunnerInvariant'
  <2>1. /\ pc[p] = "crashed" /\ UNCHANGED <<log, states, listed, checkpoint, lock, batch, local, damage, runs>>
        /\ pc' = [pc EXCEPT ![p] = "idle"] /\ run' = [run EXCEPT ![p] = NoRun]
        /\ result' = [result EXCEPT ![p] = "error"]
    BY <1>4 DEF Restart, stored, Return, Go, Finish
  <2>2. PICK S \in SUBSET Proc : S = {p}
    OBVIOUS
  <2>3. pc' = [q \in Proc |-> IF q \in S THEN "idle" ELSE pc[q]] /\ \A q \in S : pc[q] \in {"idle", "crashed"}
    BY <1>1, <2>1, <2>2 DEF RunnerTypes
  <2>4. result' \in [Proc -> {"none", "ok", "error"}] /\ \A q \in Proc \ S : result'[q] = result[q]
    BY <1>1, <2>1, <2>2 DEF RunnerTypes
  <2>5. run' = [q \in Proc |-> IF q \in S THEN NoRun ELSE run[q]]
    BY <1>1, <2>1, <2>2 DEF RunnerTypes
  <2>6. UNCHANGED <<log, states, listed, checkpoint, lock, batch, local, damage, runs>>
    BY <2>1
  <2> QED
    BY <1>1, <2>3, <2>4, <2>5, <2>6, RestartInvariant, Zenon
<1>5. ASSUME NEW p \in Proc, NEW op \in {"rebuild", "process_events"}, NEW j \in Proj, Invoke(p, op, j)
      PROVE  RunnerInvariant'
  <2> DEFINE asked == [q \in {p} |-> [op |-> op, proj |-> j]]
  <2>1. asked \in [{p} -> [op : {"rebuild", "process_events"}, proj : Proj]]
    OBVIOUS
  <2>2. Call(asked) /\ runs' \in Nat
    BY <1>1, <1>5 DEF Invoke, RunnerTypes
  <2> HIDE DEF asked
  <2> QED
    BY <1>1, <2>1, <2>2, CallInvariant
<1>6. CASE AppendEvent
  BY <1>1, <1>6, AppendEventInvariant
<1>7. CASE Launch
  <2>1. PICK S \in SUBSET Task : \E asked \in [S -> [op : {"rebuild"}, proj : Proj]] : Call(asked)
    BY <1>7, LaunchCalls
  <2>2. PICK asked \in [S -> [op : {"rebuild"}, proj : Proj]] : Call(asked)
    BY <2>1
  <2>3. /\ S \in SUBSET Proc /\ asked \in [S -> [op : {"rebuild", "process_events"}, proj : Proj]]
        /\ \A p \in S : asked[p].op = "rebuild"
    BY RebuilderAssumption
  <2>4. runs' \in Nat
    BY <1>1, <1>7 DEF Launch, RunnerTypes
  <2> QED
    BY <1>1, <2>2, <2>3, <2>4, CallInvariant
<1>8. CASE CrashRebuilder
  <2>1. Kill(Task) /\ damage' = [j \in Proj |-> IF Busy(TaskOf(j), j) THEN Harm(TaskOf(j)) ELSE damage[j]]
    BY <1>8 DEF CrashRebuilder
  <2>2. \A j \in Proj : Busy(TaskOf(j), j) => Harm(TaskOf(j)) \in {"none", "behind", "repeats", "lost"}
    BY <1>1 DEF RunnerTypes, Harm, Busy
  <2>3. damage' \in [Proj -> {"none", "behind", "repeats", "lost"}]
    BY <1>1, <2>1, <2>2 DEF RunnerTypes
  <2>4. ASSUME NEW j \in Proj
        PROVE  \/ \E q \in Task : Works(q, j) /\ damage'[j] = Harm(q)
               \/ damage'[j] = damage[j] /\ \A q \in Task : ~Works(q, j)
    <3>1. \A q \in Task : Works(q, j) => q = TaskOf(j)
      BY DEF RebuilderInvariant, Works, Busy
    <3>2. Busy(TaskOf(j), j) /\ pc[TaskOf(j)] \in {"acquire", "unlink"} => Harm(TaskOf(j)) = damage[j]
      BY DEF Harm, Busy
    <3>3. TaskOf(j) \in Task
      BY RebuilderAssumption
    <3> QED
      BY <2>1, <3>1, <3>2, <3>3 DEF Works
  <2>5. Task \in SUBSET Proc
    BY RebuilderAssumption
  <2> QED
    BY <1>1, <2>1, <2>3, <2>4, <2>5, KillInvariant
<1>9. CASE RestartRebuilder
  <2>1. /\ \A p \in Task : pc[p] \in {"idle", "crashed"}
        /\ Task \in SUBSET Proc
    BY <1>9, RebuilderAssumption DEF RestartRebuilder, RebuilderInvariant
  <2>2. /\ UNCHANGED <<log, states, listed, checkpoint, lock, batch, local, result, damage, runs>>
        /\ pc' = [p \in Proc |-> IF p \in Task THEN "idle" ELSE pc[p]]
        /\ run' = [p \in Proc |-> IF p \in Task THEN NoRun ELSE run[p]]
    BY <1>9 DEF RestartRebuilder, stored
  <2>3. result' \in [Proc -> {"none", "ok", "error"}] /\ \A p \in Proc \ Task : result'[p] = result[p]
    BY <1>1, <2>2 DEF RunnerTypes
  <2>4. UNCHANGED <<log, states, listed, checkpoint, lock, batch, local, damage, runs>>
    BY <2>2
  <2> QED
    BY <1>1, <2>1, <2>2, <2>3, <2>4, RestartInvariant, Zenon
<1>10. ASSUME NEW j \in Proj, NEW failed \in BOOLEAN, CheckProjection(j, failed) PROVE RunnerInvariant'
  BY <1>1, <1>10, IdleInvariant DEF CheckProjection, stored
<1>11. CASE RebuildAll
  BY <1>1, <1>11, IdleInvariant DEF RebuildAll, runnerVars, stored
<1>12. CASE Collect
  BY <1>1, <1>12, IdleInvariant DEF Collect, runnerVars, stored
<1>13. CASE RebuilderQuiet \/ UNCHANGED allVars
  BY <1>1, <1>13, IdleInvariant DEF RebuilderQuiet, RunnerQuiet, allVars, runnerVars, stored
<1> QED
  BY <1>2, <1>3, <1>4, <1>5, <1>6, <1>7, <1>8, <1>9, <1>10, <1>11, <1>12, <1>13
     DEF RebuilderNext, OtherProcess, RebuilderStep

\* The tasks stay what they are.
LEMMA RebuilderInvariantStays ==
  ASSUME Serialised, RebuildsExclude', RebuilderInvariant, [RebuilderNext]_allVars
  PROVE  RebuilderInvariant'
<1> DEFINE Rest == /\ phase \in {"idle", "check", "wait", "crashed"}
                   /\ todo \subseteq Proj /\ chosen \subseteq Proj
           Own == \A p \in Task : pc[p] # "idle" => run[p].op = "rebuild" /\ TaskOf(P(p)) = p
           Dead == phase = "crashed" => \A p \in Task : pc[p] \in {"idle", "crashed"}
<1>1. RunnerTypes /\ Rest /\ Own /\ Dead
  BY DEF RebuilderInvariant, RunnerInvariant
<1>2. SUFFICES Rest' /\ Own' /\ Dead'
  <2>1. RunnerInvariant'
    BY RunnerInvariantStays
  <2> QED
    BY <2>1 DEF RebuilderInvariant
<1>3. (\A p \in Task : pc'[p] = pc[p] /\ run'[p] = run[p]) => Own'
  BY <1>1 DEF P
<1>4. (\A p \in Task : pc'[p] = pc[p]) /\ phase' = phase => Dead'
  BY <1>1
<1>5. Task \subseteq Proc
  BY RebuilderAssumption
<1>6. ASSUME NEW p \in Proc, RunnerStep(p), UNCHANGED rebuilderVars PROVE Rest' /\ Own' /\ Dead'
  <2>1. StepOf(p, P(p)) /\ pc[p] \notin {"idle", "crashed"} /\ (pc'[p] # "idle" => run'[p] = run[p])
    BY <1>1, <1>6, StepFrame, StepGoes
  <2>2. \A q \in Proc : q # p => pc'[q] = pc[q] /\ run'[q] = run[q]
    BY <2>1 DEF StepOf, KeptBy
  <2>3. Own'
    BY <1>1, <1>5, <2>1, <2>2 DEF P
  <2>4. Dead'
    BY <1>1, <1>5, <1>6, <2>1, <2>2 DEF rebuilderVars
  <2> QED
    BY <1>1, <1>6, <2>3, <2>4 DEF rebuilderVars
<1>7. ASSUME NEW p \in Proc, OtherProcess(p), UNCHANGED rebuilderVars PROVE Rest' /\ Own' /\ Dead'
  <2>1. \A q \in Task : q # p
    BY <1>7 DEF OtherProcess
  <2>2. ASSUME NEW q \in Task PROVE pc'[q] = pc[q] /\ run'[q] = run[q]
    <3>1. q \in Proc /\ q # p
      BY <1>5, <2>1
    <3>2. CASE Crash(p)
      BY <3>1, <3>2 DEF Crash, Kill
    <3>3. CASE Restart(p)
      BY <1>1, <3>1, <3>3, CallFrame DEF Restart
    <3>4. CASE \E op \in {"rebuild", "process_events"}, j \in Proj : Invoke(p, op, j)
      BY <3>1, <3>4 DEF Invoke, Call
    <3> QED
      BY <1>7, <3>2, <3>3, <3>4 DEF OtherProcess
  <2> QED
    BY <1>1, <1>3, <1>4, <1>7, <2>2 DEF rebuilderVars
<1>8. CASE AppendEvent /\ UNCHANGED rebuilderVars
  BY <1>1, <1>3, <1>4, <1>8 DEF AppendEvent, rebuilderVars
<1>9. CASE RebuildAll
  BY <1>1, <1>3, <1>9 DEF RebuildAll, runnerVars
<1>10. ASSUME NEW j \in Proj, NEW failed \in BOOLEAN, CheckProjection(j, failed) PROVE Rest' /\ Own' /\ Dead'
  BY <1>1, <1>3, <1>10 DEF CheckProjection
<1>11. CASE Launch
  <2>1. PICK S \in SUBSET Task : \E asked \in [S -> [op : {"rebuild"}, proj : Proj]] :
           Call(asked) /\ \A p \in S : TaskOf(asked[p].proj) = p /\ asked[p].proj \in chosen
    BY <1>11, LaunchCalls
  <2>2. PICK asked \in [S -> [op : {"rebuild"}, proj : Proj]] :
           Call(asked) /\ \A p \in S : TaskOf(asked[p].proj) = p /\ asked[p].proj \in chosen
    BY <2>1
  <2>3. \A p \in S : asked[p].op = "rebuild"
    OBVIOUS
  <2>4. \A p \in Task : run'[p] = IF p \in S THEN [op |-> asked[p].op, proj |-> asked[p].proj, floor |-> Len(log)] ELSE run[p]
    BY <1>5, <2>2 DEF Call
  <2>5. \A p \in Task : p \notin S => pc'[p] = pc[p]
    BY <1>5, <2>2 DEF Call
  <2>6. Own'
    <3> SUFFICES ASSUME NEW p \in Task, pc'[p] # "idle" PROVE run'[p].op = "rebuild" /\ TaskOf(run'[p].proj) = p
      BY DEF P
    <3>1. CASE p \in S
      <4>1. run'[p].op = asked[p].op /\ run'[p].proj = asked[p].proj
        <5>1. run'[p] = [op |-> asked[p].op, proj |-> asked[p].proj, floor |-> Len(log)]
          BY <2>4, <3>1, Zenon
        <5> QED
          BY <5>1
      <4> QED
        BY <2>2, <2>3, <3>1, <4>1
    <3>2. CASE p \notin S
      BY <1>1, <2>4, <2>5, <3>2 DEF P
    <3> QED
      BY <3>1, <3>2
  <2> QED
    BY <1>1, <1>11, <2>6 DEF Launch
<1>12. CASE Collect
  BY <1>1, <1>3, <1>12 DEF Collect, runnerVars
<1>13. CASE CrashRebuilder
  <2>1. /\ \A p \in Task : pc'[p] = IF pc[p] # "idle" THEN "crashed" ELSE pc[p]
        /\ run' = run
    BY <1>5, <1>13 DEF CrashRebuilder, Kill
  <2> QED
    BY <1>1, <1>13, <2>1 DEF CrashRebuilder, P
<1>14. CASE RestartRebuilder
  BY <1>1, <1>5, <1>14 DEF RestartRebuilder
<1>15. CASE RebuilderQuiet \/ UNCHANGED allVars
  BY <1>1, <1>3, <1>4, <1>15 DEF RebuilderQuiet, RunnerQuiet, allVars, runnerVars, rebuilderVars
<1> QED
  BY <1>6, <1>7, <1>8, <1>9, <1>10, <1>11, <1>12, <1>13, <1>14, <1>15 DEF RebuilderNext, RebuilderStep

-----------------------------------------------------------------------------
(* Theorems *)

\* The initial state.
LEMMA RebuilderInitInvariant == RebuilderInit => RebuilderInvariant
BY RunnerInitInvariant, RebuilderAssumption DEF RebuilderInit, RebuilderInvariant, RunnerInit

\* The invariant holds while the lock of a projection lets one rebuild in, whenever
\* callers run process_events alone on it.
THEOREM RebuilderSafe ==
  ASSUME Serialised
  PROVE  RebuilderSpec /\ []RebuildsExclude => []RebuilderInvariant
<1>1. RebuilderInit => RebuilderInvariant
  BY RebuilderInitInvariant
<1>2. RebuilderInvariant /\ RebuildsExclude' /\ [RebuilderNext]_allVars => RebuilderInvariant'
  BY RebuilderInvariantStays
<1> QED
  BY <1>1, <1>2, PTL DEF RebuilderSpec

-----------------------------------------------------------------------------
(* The lock of a projection *)

\* The bounds under which it lets one rebuild in: nobody breaks locks, as in memory; or
\* those who have one neither die nor take too long.
SafeLock == ~BreaksStaleLocks \/ (FastHolders /\ "crash" \notin FaultKinds)

\* A rebuild has the lock, and nobody is about to remove one; where locks are broken,
\* all that are taken are those of living rebuilds.
LockSound ==
  /\ \A p \in Proc : \A j \in Proj : Inside(p, j) => lock[j] = p
  /\ \A p \in Proc : pc[p] # "unlink"
  /\ BreaksStaleLocks =>
       /\ \A p \in Proc : \A j \in Proj : lock[j] = p => Inside(p, j)
       /\ \A p \in Proc : pc[p] # "crashed"
       /\ phase # "crashed"

LEMMA LockSoundExcludes == LockSound => RebuildsExclude
BY DEF LockSound, RebuildsExclude

\* A rebuild ends with the release of its lock.
LEMMA RebuildGoesOn ==
  ASSUME RunnerTypes, NEW p \in Proc, RunnerStep(p), run[p].op = "rebuild", pc[p] # "release"
  PROVE  pc'[p] # "idle"
<1>1. \A label : Go(p, label) => pc'[p] = label
  BY DEF RunnerTypes, Go
<1>2. \A status : EndProcessing(p, status) => pc'[p] = "reindex"
  BY <1>1 DEF EndProcessing
<1>3. CASE AcquireProjectionLock(p) \/ JudgeLock(p) \/ BreakLock(p) \/ ClearStore(p)
  BY <1>1, <1>3 DEF AcquireProjectionLock, JudgeLock, BreakLock, ClearStore
<1>4. CASE PassEvent(p) \/ EndOfEvents(p) \/ ReleaseProjectionLock(p)
  BY <1>1, <1>2, <1>4 DEF PassEvent, MoreEvents, EndOfEvents, ReleaseProjectionLock
<1>5. ASSUME NEW failed \in BOOLEAN, ResetCheckpoint(p, failed) \/ ReadAllEvents(p, failed) \/ RebuildIndex(p, failed)
      PROVE  pc'[p] # "idle"
  BY <1>1, <1>5 DEF ResetCheckpoint, ReadAllEvents, RebuildIndex
<1>6. ASSUME NEW failed \in BOOLEAN, StartProcessing(p, failed) \/ LoadState(p, failed)
      PROVE  pc'[p] # "idle"
  BY <1>1, <1>2, <1>6 DEF StartProcessing, LoadState
<1>7. ASSUME NEW failed \in BOOLEAN, SaveState(p, failed) \/ SaveCheckpoint(p, failed)
      PROVE  pc'[p] # "idle"
  BY <1>1, <1>2, <1>7 DEF SaveState, SaveCheckpoint
<1> QED
  BY <1>3, <1>4, <1>5, <1>6, <1>7 DEF RunnerStep

\* A step of a process.
LEMMA LockSoundAfterStep ==
  ASSUME SafeLock, RebuilderInvariant, LockSound, NEW p \in Proc, RunnerStep(p), phase' = phase
  PROVE  LockSound'
<1>1. RunnerTypes /\ ControlOf(p)
  BY DEF RebuilderInvariant, RunnerInvariant, Control
<1>2. /\ \A q \in Proc : q # p => pc'[q] = pc[q] /\ run'[q] = run[q]
      /\ pc[p] \notin {"idle", "crashed"} /\ pc'[p] # "crashed"
      /\ pc'[p] # "idle" => run'[p] = run[p]
      /\ pc'[p] \in {"acquire", "unlink"} => pc[p] \in {"acquire", "unlink"}
  BY <1>1, StepFrame, StepGoes DEF StepOf, KeptBy
<1>3. P(p) \in Proj /\ lock \in [Proj -> Proc \cup {Free, Orphan}]
  BY <1>1, <1>2 DEF RunnerTypes, P
<1>4. ASSUME NEW q \in Proc, q # p, NEW j \in Proj PROVE Inside(q, j)' <=> Inside(q, j)
  BY <1>2, <1>4 DEF Inside, Busy, P
<1>5. ~JudgeLock(p) /\ ~BreakLock(p)
  BY <1>3 DEF SafeLock, LockSound, JudgeLock, BreakLock
<1>6. CASE AcquireProjectionLock(p)
  <2>1. /\ lock[P(p)] = Free /\ lock' = [lock EXCEPT ![P(p)] = p] /\ pc'[p] = "clear"
        /\ run'[p] = run[p] /\ run[p].op = "rebuild"
    BY <1>1, <1>6 DEF AcquireProjectionLock, ControlOf, Go, RunnerTypes
  <2>2. \A q \in Proc : ~Inside(q, P(p))
    BY <1>3, <2>1, RunnerAssumption DEF LockSound
  <2>3. \A j \in Proj : Inside(p, j)' => j = P(p)
    BY <2>1 DEF Inside, Busy, P
  <2>4. ASSUME NEW j \in Proj, j = P(p) PROVE Inside(p, j)'
    BY <2>1, <2>4 DEF Inside, Busy, P
  <2>5. lock'[P(p)] = p /\ \A j \in Proj : j # P(p) => lock'[j] = lock[j]
    BY <1>3, <2>1
  <2>6. ASSUME NEW q \in Proc, NEW j \in Proj, Inside(q, j)' PROVE lock'[j] = q
    <3>1. CASE q = p
      BY <2>3, <2>5, <2>6, <3>1
    <3>2. CASE q # p
      <4>1. Inside(q, j) /\ j # P(p)
        BY <1>4, <2>2, <2>6, <3>2
      <4> QED
        BY <2>5, <4>1 DEF LockSound
    <3> QED
      BY <3>1, <3>2
  <2>7. ASSUME BreaksStaleLocks, NEW q \in Proc, NEW j \in Proj, lock'[j] = q PROVE Inside(q, j)'
    <3>1. CASE j = P(p)
      <4>1. q = p
        BY <2>5, <2>7, <3>1
      <4> QED
        BY <2>4, <3>1, <4>1
    <3>2. CASE j # P(p)
      <4>1. lock[j] = q /\ Inside(q, j)
        BY <2>5, <2>7, <3>2 DEF LockSound
      <4>2. q # p
        BY <3>2, <4>1 DEF Inside, Busy
      <4> QED
        BY <1>4, <4>1, <4>2
    <3> QED
      BY <3>1, <3>2
  <2>8. \A q \in Proc : pc'[q] # "unlink" /\ (BreaksStaleLocks => pc'[q] # "crashed")
    BY <1>2, <2>1 DEF LockSound
  <2>9. BreaksStaleLocks => phase' # "crashed"
    BY DEF LockSound
  <2> QED
    BY <2>6, <2>7, <2>8, <2>9 DEF LockSound
<1>7. CASE ReleaseProjectionLock(p)
  <2>1. /\ lock' = [lock EXCEPT ![P(p)] = Free] /\ pc[p] = "release" /\ pc'[p] = "idle"
        /\ run[p].op = "rebuild"
    BY <1>1, <1>7 DEF ReleaseProjectionLock, ControlOf, Return, Go, RunnerTypes
  <2>2. Inside(p, P(p)) /\ lock[P(p)] = p
    BY <1>3, <2>1 DEF Inside, Busy, P, LockSound
  <2>3. \A j \in Proj : ~Inside(p, j)' /\ (Inside(p, j) => j = P(p))
    BY <2>1 DEF Inside, Busy, P
  <2>4. lock'[P(p)] = Free /\ \A j \in Proj : j # P(p) => lock'[j] = lock[j]
    BY <1>3, <2>1
  <2>5. ASSUME NEW q \in Proc, NEW j \in Proj, Inside(q, j)' PROVE lock'[j] = q
    <3>1. q # p /\ Inside(q, j)
      BY <1>4, <2>3, <2>5
    <3>2. lock[j] = q /\ j # P(p)
      BY <2>2, <3>1 DEF LockSound
    <3> QED
      BY <2>4, <3>2
  <2>6. ASSUME BreaksStaleLocks, NEW q \in Proc, NEW j \in Proj, lock'[j] = q PROVE Inside(q, j)'
    <3>1. j # P(p)
      BY <2>4, <2>6, RunnerAssumption
    <3>2. lock[j] = q /\ Inside(q, j)
      BY <2>4, <2>6, <3>1 DEF LockSound
    <3>3. q # p
      BY <2>3, <3>1, <3>2
    <3> QED
      BY <1>4, <3>2, <3>3
  <2>7. \A q \in Proc : pc'[q] # "unlink" /\ (BreaksStaleLocks => pc'[q] # "crashed")
    BY <1>2, <2>1 DEF LockSound
  <2>8. BreaksStaleLocks => phase' # "crashed"
    BY DEF LockSound
  <2> QED
    BY <2>5, <2>6, <2>7, <2>8 DEF LockSound
<1>8. CASE lock' = lock /\ ~AcquireProjectionLock(p) /\ ~ReleaseProjectionLock(p)
  <2>1. pc[p] \notin {"acquire", "unlink", "release"}
    BY <1>1, <1>5, <1>8, StepGoes
  <2>2. run[p].op = "rebuild" => pc'[p] # "idle"
    BY <1>1, <2>1, RebuildGoesOn
  <2>3. \A j \in Proj : Inside(p, j)' <=> Inside(p, j)
    BY <1>2, <2>1, <2>2 DEF Inside, Busy, P
  <2> QED
    BY <1>2, <1>4, <1>8, <2>1, <2>3 DEF LockSound
<1> QED
  BY <1>1, <1>5, <1>6, <1>7, <1>8, StepGoes

\* A step after which the same rebuilds are inside, with the same locks but for orphans.
LEMMA LockSoundStays ==
  ASSUME RunnerTypes, LockSound, phase' = "crashed" => phase = "crashed",
         \A p \in Proc : /\ pc'[p] \in {"unlink", "crashed"} => pc'[p] = pc[p]
                         /\ \A j \in Proj : Inside(p, j)' <=> Inside(p, j),
         lock' = lock
  PROVE  LockSound'
BY DEF LockSound

\* Calls of idle processes take nobody into a lock.
LEMMA LockSoundAfterCall ==
  ASSUME RunnerTypes, LockSound, NEW S \in SUBSET Proc,
         NEW asked \in [S -> [op : {"rebuild", "process_events"}, proj : Proj]], Call(asked),
         phase' \in {"wait", phase}
  PROVE  LockSound'
<1>1. /\ \A p \in S : pc[p] = "idle"
      /\ lock' = lock
      /\ \A p \in Proc \ S : pc'[p] = pc[p] /\ run'[p] = run[p]
      /\ \A p \in S : pc'[p] = IF asked[p].op = "rebuild" THEN "acquire" ELSE "read"
      /\ \A p \in S : run'[p] = [op |-> asked[p].op, proj |-> asked[p].proj, floor |-> Len(log)]
  BY DEF Call, stored
<1>2. ASSUME NEW p \in S PROVE run'[p].op = asked[p].op
  <2>1. run'[p] = [op |-> asked[p].op, proj |-> asked[p].proj, floor |-> Len(log)]
    BY <1>1
  <2> QED
    BY <2>1
<1>3. ASSUME NEW p \in S, NEW j \in Proj PROVE ~Inside(p, j) /\ ~Inside(p, j)'
  BY <1>1, <1>2 DEF Inside, Busy
<1>4. ASSUME NEW p \in Proc \ S, NEW j \in Proj PROVE Inside(p, j)' <=> Inside(p, j)
  BY <1>1 DEF Inside, Busy, P
<1> QED
  BY <1>1, <1>3, <1>4, LockSoundStays

\* Where processes die nobody breaks locks, and what they leave is nobody's.
LEMMA LockSoundAfterKill ==
  ASSUME SafeLock, RunnerTypes, LockSound, NEW S \in SUBSET Proc, Kill(S)
  PROVE  LockSound'
<1>1. ~BreaksStaleLocks
  BY DEF SafeLock, Kill, Storage
<1>2. PICK J \in SUBSET Created(S) : lock' = [j \in Proj |-> IF j \in J THEN Orphan ELSE lock[j]]
  BY DEF Kill
<1>3. /\ \A j \in J : lock[j] = Free
      /\ \A p \in Proc : pc'[p] \in {pc[p], "crashed"} /\ run'[p] = run[p]
  BY <1>2 DEF Kill, Created
<1>4. ASSUME NEW p \in Proc, NEW j \in Proj, Inside(p, j)' PROVE lock'[j] = p
  <2>1. Inside(p, j)
    BY <1>3, <1>4 DEF Inside, Busy, P
  <2>2. lock[j] = p /\ p # Free
    BY <2>1, RunnerAssumption DEF LockSound
  <2> QED
    BY <1>2, <1>3, <2>2
<1> QED
  BY <1>1, <1>3, <1>4 DEF LockSound

LEMMA LockSoundStep ==
  ASSUME Serialised, SafeLock, RebuilderInvariant, LockSound, [RebuilderNext]_allVars
  PROVE  LockSound'
<1>1. RunnerTypes /\ Task \subseteq Proc
  BY RebuilderAssumption DEF RebuilderInvariant, RunnerInvariant
<1>2. ASSUME NEW p \in Proc, RunnerStep(p), UNCHANGED rebuilderVars PROVE LockSound'
  BY <1>2, LockSoundAfterStep DEF rebuilderVars
<1>3. ASSUME NEW p \in Proc, OtherProcess(p), UNCHANGED rebuilderVars PROVE LockSound'
  <2>1. CASE Crash(p)
    BY <1>1, <2>1, LockSoundAfterKill DEF Crash
  <2>2. CASE Restart(p)
    <3>1. pc[p] = "crashed" /\ lock' = lock /\ pc'[p] = "idle"
          /\ \A q \in Proc : q # p => pc'[q] = pc[q] /\ run'[q] = run[q]
      BY <1>1, <2>2 DEF Restart, Return, Go, stored, RunnerTypes
    <3>2. \A q \in Proc : \A j \in Proj : Inside(q, j)' <=> Inside(q, j)
      BY <3>1 DEF Inside, Busy, P
    <3> QED
      BY <1>1, <1>3, <3>1, <3>2, LockSoundStays DEF rebuilderVars
  <2>3. ASSUME NEW op \in {"rebuild", "process_events"}, NEW j \in Proj, Invoke(p, op, j) PROVE LockSound'
    <3>1. /\ Call([q \in {p} |-> [op |-> op, proj |-> j]])
          /\ [q \in {p} |-> [op |-> op, proj |-> j]] \in [{p} -> [op : {"rebuild", "process_events"}, proj : Proj]]
      BY <2>3 DEF Invoke
    <3> QED
      BY <1>1, <1>3, <3>1, LockSoundAfterCall DEF rebuilderVars
  <2> QED
    BY <1>3, <2>1, <2>2, <2>3 DEF OtherProcess
<1>4. CASE AppendEvent /\ UNCHANGED rebuilderVars
  BY <1>1, <1>4, LockSoundStays DEF AppendEvent, stored, rebuilderVars, Inside, Busy, P
<1>5. CASE RebuildAll
  BY <1>1, <1>5, LockSoundStays DEF RebuildAll, runnerVars, stored, Inside, Busy, P
<1>6. ASSUME NEW j \in Proj, NEW failed \in BOOLEAN, CheckProjection(j, failed) PROVE LockSound'
  BY <1>1, <1>6, LockSoundStays DEF CheckProjection, stored, Inside, Busy, P
<1>7. CASE Launch
  <2>1. PICK S \in SUBSET Task : \E asked \in [S -> [op : {"rebuild"}, proj : Proj]] : Call(asked)
    BY <1>7, LaunchCalls
  <2>2. PICK asked \in [S -> [op : {"rebuild"}, proj : Proj]] : Call(asked)
    BY <2>1
  <2>3. S \in SUBSET Proc /\ asked \in [S -> [op : {"rebuild", "process_events"}, proj : Proj]]
    BY <1>1, <2>2
  <2>4. phase' = "wait"
    BY <1>7 DEF Launch
  <2> QED
    BY <1>1, <2>2, <2>3, <2>4, LockSoundAfterCall
<1>8. CASE Collect
  BY <1>1, <1>8, LockSoundStays DEF Collect, runnerVars, stored, Inside, Busy, P
<1>9. CASE CrashRebuilder
  BY <1>1, <1>9, LockSoundAfterKill DEF CrashRebuilder
<1>10. CASE RestartRebuilder
  <2>1. /\ phase = "crashed" /\ phase' = "idle" /\ lock' = lock
        /\ \A p \in Task : pc[p] \in {"idle", "crashed"} /\ pc'[p] = "idle"
        /\ \A p \in Proc \ Task : pc'[p] = pc[p] /\ run'[p] = run[p]
    BY <1>1, <1>10 DEF RestartRebuilder, stored, RebuilderInvariant
  <2>2. \A p \in Task : \A j \in Proj : ~Inside(p, j) /\ ~Inside(p, j)'
    BY <2>1 DEF Inside, Busy
  <2>3. \A p \in Proc \ Task : \A j \in Proj : Inside(p, j)' <=> Inside(p, j)
    BY <2>1 DEF Inside, Busy, P
  <2> QED
    BY <1>1, <2>1, <2>2, <2>3, LockSoundStays
<1>11. CASE RebuilderQuiet \/ UNCHANGED allVars
  BY <1>1, <1>11, LockSoundStays
     DEF RebuilderQuiet, RunnerQuiet, allVars, runnerVars, rebuilderVars, stored, Inside, Busy, P
<1> QED
  BY <1>2, <1>3, <1>4, <1>5, <1>6, <1>7, <1>8, <1>9, <1>10, <1>11 DEF RebuilderNext, RebuilderStep

\* In memory, where nobody breaks a lock, and among processes that neither die nor take
\* too long, the lock of a projection lets one rebuild in: there the hypothesis of the
\* theorems is met.
THEOREM SafeLockExcludes ==
  ASSUME Serialised, SafeLock
  PROVE  RebuilderSpec => []RebuildsExclude
<1>1. RebuilderInit => RebuilderInvariant /\ LockSound
  <2>1. ASSUME RebuilderInit PROVE LockSound
    <3>1. /\ \A p \in Proc : pc[p] = "idle"
          /\ \A j \in Proj : lock[j] = Free
          /\ phase = "idle"
      BY <2>1 DEF RebuilderInit, RunnerInit
    <3> QED
      BY <3>1, RunnerAssumption DEF LockSound, Inside, Busy
  <2> QED
    BY <2>1, RebuilderInitInvariant
<1>2. RebuilderInvariant /\ LockSound /\ [RebuilderNext]_allVars => (RebuilderInvariant /\ LockSound)'
  <2> SUFFICES ASSUME RebuilderInvariant, LockSound, [RebuilderNext]_allVars
               PROVE  RebuilderInvariant' /\ LockSound'
    OBVIOUS
  <2>1. LockSound'
    BY LockSoundStep
  <2>2. RebuildsExclude'
    BY <2>1 DEF LockSound, RebuildsExclude
  <2> QED
    BY <2>1, <2>2, RebuilderInvariantStays
<1> QED
  BY <1>1, <1>2, LockSoundExcludes, PTL DEF RebuilderSpec

-----------------------------------------------------------------------------
(* What holds of the projections *)

\* The terms of the properties, over positions, and those of the invariant.
LEMMA PositionsOf ==
  ASSUME RunnerTypes, NEW j \in Proj, NEW k \in Key
  PROVE  /\ ToSet(Positions(j, k)) = Ats(states[j][k])
         /\ InOrder(Positions(j, k)) <=> Ordered(states[j][k])
         /\ IsInjective(Positions(j, k)) <=> Once(states[j][k])
<1> DEFINE s == states[j][k]
<1>1. /\ DOMAIN Positions(j, k) = DOMAIN s
      /\ \A i \in DOMAIN s : Positions(j, k)[i] = s[i].at
  BY DEF Positions
<1>2. ToSet(Positions(j, k)) = Ats(s)
  BY <1>1 DEF ToSet, Ats
<1>3. InOrder(Positions(j, k)) <=> Ordered(s)
  BY <1>1 DEF InOrder, Ordered
<1>4. IsInjective(Positions(j, k)) <=> Once(s)
  BY <1>1 DEF IsInjective, Once
<1> QED
  BY <1>2, <1>3, <1>4

\* States that count as made of the events up to the checkpoint are the fold of them.
LEMMA CountedIsFold ==
  ASSUME RunnerTypes, NEW j \in Proj, Counted(states[j], log, j, checkpoint[j]), NEW k \in Key
  PROVE  IsFold(j, k)
<1>1. checkpoint[j] \in Int
  BY DEF RunnerTypes, NoCheckpoint
<1>2. ToSet(Positions(j, k)) = Ats(states[j][k]) /\ (InOrder(Positions(j, k)) <=> Ordered(states[j][k]))
  BY PositionsOf
<1>3. /\ Ordered(states[j][k])
      /\ checkpoint[j] > 0 => Ats(states[j][k]) = MadeOf(log, j, k, checkpoint[j])
      /\ checkpoint[j] <= 0 => Ats(states[j][k]) \subseteq MadeOf(log, j, k, 0)
  BY <1>1 DEF Counted, Made, Begun
<1> QED
  BY <1>2, <1>3 DEF IsFold

\* Nobody works on an unused projection.
LEMMA UnusedRests ==
  ASSUME RunnerInvariant, NEW j \in Proj, Unused(j)
  PROVE  AtRest(j)
BY DEF RunnerInvariant, Known, Works, Unused

\* Between calls an undamaged projection is what its checkpoint says (projections.rs
\* process_events_internal, rebuild): states and metadata index.
THEOREM StatesFollowCheckpointHolds ==
  ASSUME Serialised
  PROVE  RebuilderSpec /\ []RebuildsExclude => []StatesFollowCheckpoint
<1>1. RebuilderInvariant => StatesFollowCheckpoint
  <2> SUFFICES ASSUME RebuilderInvariant, NEW j \in Proj, Unused(j), damage[j] \in {"none", "behind"}
               PROVE  IndexIsExact(j) /\ \A k \in Key : IsFold(j, k)
    BY DEF StatesFollowCheckpoint
  <2>1. RunnerTypes /\ AtRest(j)
    BY UnusedRests DEF RebuilderInvariant, RunnerInvariant
  <2>2. listed[j] = Listing(states[j]) /\ Counted(states[j], log, j, checkpoint[j])
    BY <2>1 DEF AtRest, Resting
  <2> QED
    BY <2>1, <2>2, CountedIsFold DEF IndexIsExact, Listing
<1> QED
  BY <1>1, RebuilderSafe, PTL

\* A rebuild about to return Ok has restored its projection whatever there was before.
THEOREM RebuildRestoresHolds ==
  ASSUME Serialised
  PROVE  RebuilderSpec /\ []RebuildsExclude => []RebuildRestores
<1>1. RebuilderInvariant => RebuildRestores
  <2> SUFFICES ASSUME RebuilderInvariant, NEW p \in Proc, pc[p] = "release", result[p] = "ok", NEW j, j = P(p)
               PROVE  /\ IndexIsExact(j) /\ \A k \in Key : IsFold(j, k)
                      /\ \A k \in Key : IsInjective(Positions(j, k))
                      /\ run[p].floor > 1 => checkpoint[j] >= run[p].floor - 1
                      /\ j \in Related => \A k \in Key : \A i \in DOMAIN states[j][k] :
                           \A n \in 0 .. run[p].floor - 1 : KeyOf(n) = k => n \in states[j][k][i].related
    BY DEF RebuildRestores
  <2>1. RunnerInvariant /\ RunnerTypes
    BY DEF RebuilderInvariant, RunnerInvariant
  <2>2. j \in Proj /\ Rebuilt(p, j) /\ IndexIsExact(j)
    BY <2>1, AtWork DEF Knows
  <2>3. Fresh(states[j], log, j, run[p].floor)
    BY <2>2 DEF Rebuilt
  <2>4. \A k \in Key : IsFold(j, k)
    BY <2>1, <2>2, CountedIsFold DEF Rebuilt
  <2>5. \A k \in Key : IsInjective(Positions(j, k))
    BY <2>1, <2>2, <2>3, PositionsOf DEF Fresh
  <2>6. j \in Related => \A k \in Key : LookedUp(states[j][k], log, k, run[p].floor)
    BY <2>3 DEF Fresh
  <2>7. run[p].floor > 1 => checkpoint[j] >= run[p].floor - 1
    BY <2>2 DEF Rebuilt
  <2> QED
    BY <2>2, <2>4, <2>5, <2>6, <2>7 DEF LookedUp, KeyOf
<1> QED
  BY <1>1, RebuilderSafe, PTL

\* No event up to the checkpoint is lost unless a rebuild broke off between clear and
\* the reset of the checkpoint.
THEOREM NoEventLostHolds ==
  ASSUME Serialised
  PROVE  RebuilderSpec /\ []RebuildsExclude => []NoEventLost
<1>1. RebuilderInvariant => NoEventLost
  <2> SUFFICES ASSUME RebuilderInvariant, NEW j \in Proj, Unused(j), damage[j] # "lost", checkpoint[j] > 0,
                      NEW k \in Key, NEW n \in 0 .. checkpoint[j], n \in MadeOf(log, j, k, Len(log) - 1)
               PROVE  n \in ToSet(Positions(j, k))
    BY DEF NoEventLost
  <2>1. RunnerTypes /\ AtRest(j)
    BY UnusedRests DEF RebuilderInvariant, RunnerInvariant
  <2>2. n \in Ats(states[j][k])
    BY <2>1 DEF AtRest, Resting, Complete
  <2> QED
    BY <2>1, <2>2, PositionsOf
<1> QED
  BY <1>1, RebuilderSafe, PTL

-----------------------------------------------------------------------------
(* What rebuild_all reports *)

\* The checkpoint of j is not behind the log as rebuild_all was called.
Caught(j) == start.length > 1 => checkpoint[j] >= start.length - 1

\* If p, at work on a projection that rebuild_all has rebuilt, leaves it undamaged,
\* it leaves it caught up.
Serves(p, j) ==
  /\ damage[j] = "none" /\ (run[p].op = "process_events" \/ pc[p] = "clear") => Caught(j)
  /\ run[p].op = "rebuild" /\ pc[p] \in {"start", "load", "save", "checkpoint"} =>
       start.length <= local[p].upto
  /\ pc[p] \in {"reindex", "release"} /\ result[p] = "ok" => Caught(j)

\* rebuild_all has rebuilt j: only others have damaged it since.
Served(j) ==
  /\ checkpoint[j] # NoCheckpoint
  /\ damage[j] # "none" => OthersRan
  /\ \A p \in Proc : Works(p, j) => Serves(p, j)
  /\ damage[j] = "none" /\ (\A p \in Proc : ~Works(p, j)) => Caught(j)

\* What has become of j while rebuild_all waits for its tasks.
Settled(j) ==
  IF j \notin chosen THEN checkpoint[j] # NoCheckpoint
  ELSE /\ pc[TaskOf(j)] # "crashed"
       /\ pc[TaskOf(j)] # "idle" => start.length <= run[TaskOf(j)].floor
       /\ pc[TaskOf(j)] = "idle" => result[TaskOf(j)] \in {"ok", "error"}
       /\ pc[TaskOf(j)] = "idle" /\ result[TaskOf(j)] = "ok" => Served(j)

StartTypes ==
  /\ start \in [length : Nat, runs : Nat, alone : BOOLEAN]
  /\ start.runs <= runs /\ start.length <= Len(log)

\* Others with a call in hand, since rebuild_all was called.
OthersCounted ==
  phase \in {"check", "wait"} => \A p \in Proc \ Task : pc[p] # "idle" => OthersRan

Looked == phase = "check" => \A j \in Proj : j \in todo \cup chosen \/ checkpoint[j] # NoCheckpoint

AllSettled == phase = "wait" => \A j \in Proj : Settled(j)

HonestInvariant == RebuilderInvariant /\ StartTypes /\ OthersCounted /\ Looked /\ AllSettled

\* How a step of p leaves a projection that rebuild_all has rebuilt.
LeavesServed(p, j) ==
  /\ checkpoint[j] # NoCheckpoint => checkpoint'[j] # NoCheckpoint
  /\ Serves(p, j) => IF pc'[p] = "idle" THEN damage'[j] = "none" => Caught(j)' ELSE Serves(p, j)'

\* process_events_internal fails.
LEMMA FailureServes ==
  ASSUME RunnerInvariant, NEW p \in Proc, NEW j, P(p) = j, pc[p] \in {"start", "load", "save", "checkpoint"},
         UNCHANGED <<start, checkpoint>>, EndProcessing(p, "error")
  PROVE  LeavesServed(p, j)
<1>1. RunnerTypes /\ j \in Proj /\ run[p].op \in {"rebuild", "process_events"}
  BY AtWork
<1>2. Damaged(p) /\ result'[p] = "error"
  BY <1>1, CallSteps DEF EndProcessing
<1>3. damage'[j] = Harm(p)
  BY <1>1, <1>2 DEF Damaged, RunnerTypes
<1>4. CASE run[p].op = "rebuild"
  <2>1. pc'[p] = "reindex" /\ run' = run
    BY <1>1, <1>4, CallSteps DEF EndProcessing
  <2> QED
    BY <1>2, <1>4, <2>1 DEF LeavesServed, Serves
<1>5. CASE run[p].op = "process_events"
  <2>1. pc'[p] = "idle"
    BY <1>1, <1>5, CallSteps DEF EndProcessing
  <2>2. damage'[j] = "none" => damage[j] = "none"
    BY <1>3, <1>5 DEF Harm
  <2> QED
    BY <1>5, <2>1, <2>2 DEF LeavesServed, Serves, Caught
<1> QED
  BY <1>1, <1>4, <1>5

\* It succeeds.
LEMMA SuccessServes ==
  ASSUME RunnerInvariant, NEW p \in Proc, NEW j, P(p) = j, pc[p] \in {"load", "checkpoint"},
         UNCHANGED start, start.length \in Nat, EndProcessing(p, "ok"), At(p) = local[p].upto,
         \/ local[p].last > 0 /\ checkpoint'[j] = local[p].last
         \/ local[p].last = 0 /\ checkpoint'[j] = checkpoint[j]
  PROVE  LeavesServed(p, j)
<1>1. /\ RunnerTypes /\ j \in Proj /\ InLoop(p, j) /\ run[p].op \in {"rebuild", "process_events"}
      /\ run[p].op = "rebuild" => checkpoint[j] = 0
  BY AtWork DEF Knows, RebuildInLoop
<1>2. /\ local[p].last \in Nat /\ At(p) \in Nat /\ local[p].upto \in Nat
      /\ checkpoint[j] \in Int /\ checkpoint[j] >= -1
  BY <1>1, TypesOf DEF At
<1>3. /\ checkpoint'[j] \in Int /\ checkpoint'[j] >= checkpoint[j]
      /\ checkpoint[j] # NoCheckpoint => checkpoint'[j] # NoCheckpoint
  BY <1>1, <1>2 DEF InLoop, NoCheckpoint
<1>4. CASE run[p].op = "rebuild"
  <2>1. pc'[p] = "reindex" /\ run' = run
    BY <1>1, <1>4, CallSteps DEF EndProcessing
  <2>2. start.length <= local[p].upto => (start.length > 1 => checkpoint'[j] >= start.length - 1)
    BY <1>1, <1>2, <1>4 DEF InLoop
  <2>3. Serves(p, j) => Caught(j)'
    BY <1>4, <2>2 DEF Serves, Caught
  <2> QED
    BY <1>3, <1>4, <2>1, <2>3 DEF LeavesServed, Serves
<1>5. CASE run[p].op = "process_events"
  <2>1. pc'[p] = "idle"
    BY <1>1, <1>5, CallSteps DEF EndProcessing
  <2>2. damage'[j] = "none" => damage[j] = "none"
    <3>1. Damaged(p) => damage'[j] = Harm(p)
      BY <1>1 DEF Damaged, RunnerTypes
    <3>2. Harm(p) = "none" => damage[j] = "none"
      BY <1>5 DEF Harm
    <3> QED
      BY <3>1, <3>2 DEF EndProcessing
  <2>3. Caught(j) => Caught(j)'
    BY <1>2, <1>3 DEF Caught
  <2> QED
    BY <1>3, <1>5, <2>1, <2>2, <2>3 DEF LeavesServed, Serves
<1> QED
  BY <1>1, <1>4, <1>5

\* A step of p at work on j.
LEMMA WorkServes ==
  ASSUME RunnerInvariant, NEW p \in Proc, NEW j, P(p) = j, RunnerStep(p), pc[p] \notin {"acquire", "unlink"},
         UNCHANGED start, start.length \in Nat, start.length <= Len(log)
  PROVE  LeavesServed(p, j)
<1>1. RunnerTypes
  BY DEF RunnerInvariant
<1>2. pc[p] \notin {"idle", "crashed", "acquire", "unlink"}
  BY <1>1, StepGoes
<1>3. j \in Proj /\ Control /\ Knows(p, j) /\ run[p].op \in {"rebuild", "process_events"}
  BY <1>2, AtWork
<1>4. /\ \A label : Go(p, label) => pc'[p] = label
      /\ Return(p) => pc'[p] = "idle"
      /\ \A status : Finish(p, status) => result'[p] = status
  BY <1>1, CallSteps
<1>5. Damaged(p) => damage'[j] = Harm(p)
  BY <1>1, <1>3 DEF Damaged, RunnerTypes
<1>6. CASE ClearStore(p)
  BY <1>3, <1>4, <1>6 DEF ClearStore, LeavesServed, Serves, Control, ControlOf
<1>7. CASE PassEvent(p)
  <2>1. local'[p].upto = local[p].upto /\ UNCHANGED <<pc, run, checkpoint, result, damage>> /\ pc[p] = "load"
    BY <1>1, <1>7 DEF PassEvent, Advance, Locals, RunnerTypes, stored, MoreEvents
  <2> QED
    BY <2>1 DEF LeavesServed, Serves, Caught
<1>8. CASE EndOfEvents(p)
  <2>1. UNCHANGED <<checkpoint>> /\ pc[p] = "load" /\ At(p) = local[p].upto /\ local[p].last \in Nat
    BY <1>1, <1>3, <1>8, TypesOf DEF EndOfEvents, MoreEvents, stored, Knows, InLoop, At
  <2>2. CASE local[p].last > 0
    <3>1. pc'[p] = "checkpoint" /\ UNCHANGED <<run, local, damage>>
      BY <1>4, <1>8, <2>2 DEF EndOfEvents
    <3> QED
      BY <2>1, <3>1 DEF LeavesServed, Serves, Caught
  <2>3. CASE ~(local[p].last > 0)
    <3>1. EndProcessing(p, "ok") /\ local[p].last = 0
      BY <1>8, <2>1, <2>3 DEF EndOfEvents
    <3> QED
      BY <2>1, <3>1, SuccessServes
  <2> QED
    BY <2>2, <2>3
<1>9. CASE ReleaseProjectionLock(p)
  <2>1. pc[p] = "release" /\ pc'[p] = "idle" /\ UNCHANGED checkpoint
    BY <1>4, <1>9 DEF ReleaseProjectionLock
  <2>2. result[p] = "error" => damage'[j] # "none"
    BY <1>3, <1>9, <2>1 DEF ReleaseProjectionLock, Knows, Failed
  <2>3. result[p] \in {"ok", "error"}
    BY <1>3, <2>1 DEF Control, ControlOf
  <2> QED
    BY <2>1, <2>2, <2>3 DEF LeavesServed, Serves, Caught
<1>10. ASSUME NEW failed \in BOOLEAN, ResetCheckpoint(p, failed) PROVE LeavesServed(p, j)
  <2>1. pc[p] = "reset" /\ run' = run /\ run[p].op = "rebuild"
    BY <1>3, <1>10 DEF ResetCheckpoint, Control, ControlOf
  <2>2. CASE failed
    <3>1. pc'[p] = "release" /\ result'[p] = "error" /\ UNCHANGED checkpoint
      BY <1>4, <1>10, <2>2 DEF ResetCheckpoint
    <3> QED
      BY <2>1, <3>1 DEF LeavesServed, Serves
  <2>3. CASE ~failed
    <3>1. pc'[p] = "read" /\ checkpoint'[j] = 0
      BY <1>1, <1>3, <1>4, <1>10, <2>3 DEF ResetCheckpoint, RunnerTypes, StartOfLog
    <3> QED
      BY <2>1, <3>1 DEF LeavesServed, Serves, NoCheckpoint
  <2> QED
    BY <2>2, <2>3
<1>11. ASSUME NEW failed \in BOOLEAN, ReadAllEvents(p, failed) PROVE LeavesServed(p, j)
  <2>1. pc[p] = "read" /\ UNCHANGED checkpoint
    BY <1>11 DEF ReadAllEvents, stored
  <2>2. CASE failed
    <3>1. damage'[j] = Harm(p) /\ result'[p] = "error"
      BY <1>4, <1>5, <1>11, <2>2 DEF ReadAllEvents
    <3>2. CASE run[p].op = "rebuild"
      <4>1. pc'[p] = "release" /\ run' = run
        BY <1>4, <1>11, <2>2, <3>2 DEF ReadAllEvents
      <4> QED
        BY <2>1, <3>1, <3>2, <4>1 DEF LeavesServed, Serves
    <3>3. CASE run[p].op = "process_events"
      <4>1. pc'[p] = "idle"
        BY <1>4, <1>11, <2>2, <3>3 DEF ReadAllEvents
      <4>2. Harm(p) = damage[j]
        BY <2>1, <3>3 DEF Harm
      <4> QED
        BY <2>1, <3>1, <3>3, <4>1, <4>2 DEF LeavesServed, Serves, Caught
    <3> QED
      BY <1>3, <3>2, <3>3
  <2>3. CASE ~failed
    <3>1. pc'[p] = "start" /\ UNCHANGED <<run, result, damage>>
      BY <1>4, <1>11, <2>3 DEF ReadAllEvents
    <3>2. local'[p].upto = Len(log)
      BY <1>1, <1>11, <2>3 DEF ReadAllEvents, RunnerTypes
    <3> QED
      BY <2>1, <3>1, <3>2 DEF LeavesServed, Serves, Caught
  <2> QED
    BY <2>2, <2>3
<1>12. ASSUME NEW failed \in BOOLEAN, StartProcessing(p, failed) PROVE LeavesServed(p, j)
  <2>1. pc[p] = "start" /\ UNCHANGED checkpoint
    BY <1>12 DEF StartProcessing, stored
  <2>2. CASE failed
    BY <1>12, <2>1, <2>2, FailureServes DEF StartProcessing
  <2>3. CASE ~failed
    <3>1. pc'[p] = "load" /\ UNCHANGED <<run, result, damage>>
      BY <1>4, <1>12, <2>3 DEF StartProcessing
    <3>2. local'[p].upto = local[p].upto
      BY <1>1, <1>12, <2>3 DEF StartProcessing, RunnerTypes
    <3> QED
      BY <2>1, <3>1, <3>2 DEF LeavesServed, Serves, Caught
  <2> QED
    BY <2>2, <2>3
<1>13. ASSUME NEW failed \in BOOLEAN, LoadState(p, failed) PROVE LeavesServed(p, j)
  <2>1. pc[p] = "load" /\ UNCHANGED checkpoint
    BY <1>13 DEF LoadState, MoreEvents, stored
  <2>2. CASE failed
    BY <1>13, <2>1, <2>2, FailureServes DEF LoadState
  <2>3. CASE ~failed
    <3>1. pc'[p] = "save" /\ UNCHANGED <<run, result, damage>>
      BY <1>4, <1>13, <2>3 DEF LoadState
    <3>2. local'[p].upto = local[p].upto
      BY <1>1, <1>13, <2>3 DEF LoadState, RunnerTypes
    <3> QED
      BY <2>1, <3>1, <3>2 DEF LeavesServed, Serves, Caught
  <2> QED
    BY <2>2, <2>3
<1>14. ASSUME NEW failed \in BOOLEAN, SaveState(p, failed) PROVE LeavesServed(p, j)
  <2>1. pc[p] = "save" /\ UNCHANGED checkpoint
    BY <1>14 DEF SaveState
  <2>2. CASE failed
    BY <1>14, <2>1, <2>2, FailureServes DEF SaveState
  <2>3. CASE ~failed
    <3>1. pc'[p] = "load" /\ UNCHANGED <<run, result, damage>>
      BY <1>4, <1>14, <2>3 DEF SaveState
    <3>2. local'[p].upto = local[p].upto
      BY <1>1, <1>14, <2>3 DEF SaveState, Advance, Locals, RunnerTypes
    <3> QED
      BY <2>1, <3>1, <3>2 DEF LeavesServed, Serves, Caught
  <2> QED
    BY <2>2, <2>3
<1>15. ASSUME NEW failed \in BOOLEAN, SaveCheckpoint(p, failed) PROVE LeavesServed(p, j)
  <2>1. pc[p] = "checkpoint" /\ At(p) = local[p].upto /\ local[p].last > 0
    BY <1>3, <1>15 DEF SaveCheckpoint, Knows
  <2>2. CASE failed
    BY <1>15, <2>1, <2>2, FailureServes DEF SaveCheckpoint
  <2>3. CASE ~failed
    <3>1. EndProcessing(p, "ok") /\ checkpoint'[j] = local[p].last
      BY <1>1, <1>3, <1>15, <2>3 DEF SaveCheckpoint, RunnerTypes
    <3> QED
      BY <2>1, <3>1, SuccessServes
  <2> QED
    BY <2>2, <2>3
<1>16. ASSUME NEW failed \in BOOLEAN, RebuildIndex(p, failed) PROVE LeavesServed(p, j)
  <2>1. pc[p] = "reindex" /\ pc'[p] = "release" /\ UNCHANGED <<checkpoint, run>> /\ run[p].op = "rebuild"
    BY <1>3, <1>4, <1>16 DEF RebuildIndex, Control, ControlOf
  <2>2. result'[p] = "error" \/ result'[p] = result[p]
    BY <1>4, <1>16 DEF RebuildIndex
  <2> QED
    BY <2>1, <2>2 DEF LeavesServed, Serves, Caught
<1> QED
  BY <1>2, <1>6, <1>7, <1>8, <1>9, <1>10, <1>11, <1>12, <1>13, <1>14, <1>15, <1>16
     DEF RunnerStep, AcquireProjectionLock, JudgeLock, BreakLock

\* Nothing of the projection or of those at work on it changes.
LEMMA ServedStays ==
  ASSUME NEW j \in Proj, Served(j), UNCHANGED start, OthersRan => OthersRan',
         checkpoint'[j] = checkpoint[j], damage'[j] = damage[j],
         \A q \in Proc : (Works(q, j)' <=> Works(q, j)) /\ (Works(q, j) => KeptBy(q))
  PROVE  Served(j)'
<1>1. Caught(j)' <=> Caught(j)
  BY DEF Caught
<1>2. ASSUME NEW q \in Proc, Works(q, j)' PROVE Serves(q, j)'
  <2>1. Serves(q, j) /\ KeptBy(q)
    BY <1>2 DEF Served
  <2> QED
    BY <1>1, <2>1 DEF Serves, KeptBy
<1> QED
  BY <1>1, <1>2 DEF Served

\* A step of a process that is not the task of j leaves it served.
LEMMA ServedAfterStep ==
  ASSUME RunnerInvariant, RebuildsExclude', NEW p \in Proc, RunnerStep(p), NEW j \in Proj, Served(j),
         UNCHANGED start, start.length \in Nat, start.length <= Len(log), Busy(p, j) => OthersRan
  PROVE  Served(j)'
<1>1. RunnerTypes /\ RebuildsExclude /\ ProcessingAlone
  BY DEF RunnerInvariant
<1>2. /\ pc[p] \notin {"idle", "crashed"} /\ pc'[p] # "crashed"
      /\ pc'[p] # "idle" => run'[p] = run[p]
      /\ pc'[p] \in {"acquire", "unlink"} => pc[p] \in {"acquire", "unlink"}
      /\ pc[p] \in {"acquire", "unlink"} => AcquireProjectionLock(p) \/ JudgeLock(p) \/ BreakLock(p)
      /\ StepOf(p, P(p))
  BY <1>1, StepGoes, StepFrame
<1>3. \A q \in Proc : q # p => /\ Works(q, j)' <=> Works(q, j)
                               /\ run'[q] = run[q] /\ pc'[q] = pc[q]
                               /\ local'[q] = local[q] /\ result'[q] = result[q]
  BY <1>2 DEF StepOf, KeptBy, Works, Busy, P
<1>4. UNCHANGED runs
  BY DEF RunnerStep, AcquireProjectionLock, JudgeLock, BreakLock, ClearStore, PassEvent, EndOfEvents,
         ReleaseProjectionLock, ResetCheckpoint, ReadAllEvents, StartProcessing, LoadState,
         SaveState, SaveCheckpoint, RebuildIndex
<1>5. OthersRan' <=> OthersRan
  BY <1>4 DEF OthersRan
<1>6. CASE P(p) # j
  <2>1. checkpoint'[j] = checkpoint[j] /\ damage'[j] = damage[j]
    BY <1>2, <1>6 DEF StepOf, Kept
  <2>2. ~Works(p, j) /\ ~Works(p, j)'
    BY <1>2, <1>6 DEF Works, Busy, P
  <2>3. Caught(j)' <=> Caught(j)
    BY <2>1 DEF Caught
  <2>4. ASSUME NEW q \in Proc, Works(q, j)' PROVE Serves(q, j)'
    <3>1. q # p /\ Serves(q, j)
      BY <1>3, <2>2, <2>4 DEF Served
    <3> QED
      BY <1>3, <2>1, <2>3, <3>1 DEF Serves
  <2>5. (\A q \in Proc : ~Works(q, j)') => \A q \in Proc : ~Works(q, j)
    BY <1>3, <2>2
  <2> QED
    BY <1>5, <2>1, <2>3, <2>4, <2>5 DEF Served
<1>7. CASE P(p) = j /\ (JudgeLock(p) \/ BreakLock(p))
  <2>1. /\ UNCHANGED <<checkpoint, damage, run, batch, local, result>>
        /\ pc[p] \in {"acquire", "unlink"} /\ pc'[p] \in {"acquire", "unlink"}
    BY <1>1, <1>7, CallSteps DEF JudgeLock, BreakLock, stored
  <2>2. \A q \in Proc : (Works(q, j)' <=> Works(q, j)) /\ (Works(q, j) => KeptBy(q))
    BY <1>3, <2>1 DEF KeptBy, Works, Busy, P
  <2> QED
    BY <1>5, <2>1, <2>2, ServedStays
<1>8. CASE P(p) = j /\ AcquireProjectionLock(p)
  <2>1. /\ UNCHANGED <<checkpoint, damage, run, local, result>>
        /\ \A q \in Proc : ~Works(q, j)
    BY <1>8, AcquiredAlone DEF AcquireProjectionLock
  <2>2. pc'[p] = "clear"
    BY <1>1, <1>8, CallSteps DEF AcquireProjectionLock
  <2>3. Serves(p, j)'
    BY <2>1, <2>2 DEF Served, Serves, Caught
  <2>4. Works(p, j)'
    BY <1>8, <2>1, <2>2 DEF Works, Busy, P
  <2> QED
    BY <1>3, <1>5, <2>1, <2>3, <2>4 DEF Served
<1>9. CASE P(p) = j /\ pc[p] \notin {"acquire", "unlink"}
  <2>1. Works(p, j)
    BY <1>2, <1>9 DEF Works, Busy
  <2>2. \A q \in Proc : q # p => ~Works(q, j)
    BY <1>1, <2>1, WorksAlone
  <2>3. LeavesServed(p, j)
    BY <1>9, WorkServes
  <2>4. Works(p, j)' <=> pc'[p] # "idle"
    BY <1>2, <1>9 DEF Works, Busy, P
  <2>5. OthersRan
    BY <2>1 DEF Works
  <2>6. Serves(p, j) /\ checkpoint[j] # NoCheckpoint
    BY <2>1 DEF Served
  <2>7. /\ checkpoint'[j] # NoCheckpoint
        /\ pc'[p] = "idle" => (damage'[j] = "none" => Caught(j)')
        /\ pc'[p] # "idle" => Serves(p, j)'
    BY <2>3, <2>6 DEF LeavesServed
  <2>8. \A q \in Proc : Works(q, j)' => Serves(q, j)'
    BY <1>3, <2>2, <2>4, <2>7
  <2>9. damage'[j] = "none" /\ (\A q \in Proc : ~Works(q, j)') => Caught(j)'
    BY <2>4, <2>7
  <2> QED
    BY <1>5, <2>5, <2>7, <2>8, <2>9 DEF Served
<1> QED
  BY <1>2, <1>6, <1>7, <1>8, <1>9

\* The task of j, which rebuild_all called, ends.
LEMMA TaskEnds ==
  ASSUME RunnerInvariant, NEW p \in Proc, NEW j, P(p) = j, RunnerStep(p), run[p].op = "rebuild",
         UNCHANGED start, start.length \in Nat, start.length <= run[p].floor, pc'[p] = "idle"
  PROVE  result'[p] \in {"ok", "error"} /\ (result'[p] = "ok" => Served(j)')
<1>1. RunnerTypes /\ RebuildsExclude /\ ProcessingAlone /\ Control
  BY DEF RunnerInvariant
<1>2. pc[p] \notin {"idle", "crashed"} /\ StepOf(p, j)
  BY <1>1, StepGoes, StepFrame
<1>3. ReleaseProjectionLock(p)
  <2>1. /\ \A label : Go(p, label) => pc'[p] = label
        /\ \A status : EndProcessing(p, status) => pc'[p] = "reindex"
    BY <1>1, CallSteps DEF EndProcessing
  <2> QED
    BY <1>2, <2>1
       DEF RunnerStep, AcquireProjectionLock, JudgeLock, BreakLock, ClearStore, PassEvent, MoreEvents,
           EndOfEvents, ResetCheckpoint, ReadAllEvents, StartProcessing, LoadState, SaveState,
           SaveCheckpoint, RebuildIndex
<1>4. pc[p] = "release" /\ UNCHANGED <<checkpoint, result>>
  BY <1>3 DEF ReleaseProjectionLock
<1>5. j \in Proj /\ Works(p, j) /\ Knows(p, j)
  BY <1>4, AtWork
<1>6. result[p] \in {"ok", "error"}
  BY <1>1, <1>4 DEF Control, ControlOf
<1>7. ASSUME result[p] = "ok" PROVE Served(j)'
  <2>1. Rebuilt(p, j)
    BY <1>4, <1>5, <1>7 DEF Knows
  <2>2. damage'[j] = "none"
    BY <1>1, <1>3, <1>5, <1>7 DEF ReleaseProjectionLock, RunnerTypes
  <2>3. \A q \in Proc : q # p => ~Works(q, j)
    BY <1>1, <1>5, WorksAlone
  <2>4. \A q \in Proc : ~Works(q, j)'
    BY <1>2, <2>3 DEF StepOf, KeptBy, Works, Busy, P
  <2>5. checkpoint[j] # NoCheckpoint /\ (start.length > 1 => checkpoint[j] >= start.length - 1)
    <3>1. checkpoint[j] \in Int /\ run[p].floor \in Nat
      BY <1>1, <1>4, <1>5, TypesOf
    <3> QED
      BY <2>1, <3>1 DEF Rebuilt
  <2> QED
    BY <1>4, <2>2, <2>4, <2>5 DEF Served, Caught
<1> QED
  BY <1>4, <1>6, <1>7

\* Another process dies: if it was at work on j, it has damaged it or leaves it caught up.
LEMMA ServedAfterCrash ==
  ASSUME RunnerInvariant, NEW p \in Proc, Crash(p), NEW j \in Proj, Served(j),
         UNCHANGED start, Busy(p, j) => OthersRan
  PROVE  Served(j)'
<1>1. RunnerTypes /\ RebuildsExclude /\ ProcessingAlone
  BY DEF RunnerInvariant
<1>2. /\ UNCHANGED <<log, states, listed, checkpoint, run, result, runs>>
      /\ pc[p] \notin {"idle", "crashed"} /\ pc'[p] = "crashed"
      /\ damage' = [damage EXCEPT ![P(p)] = Harm(p)]
      /\ \A q \in Proc : q # p => KeptBy(q)
  BY <1>1 DEF Crash, Kill, Damaged, KeptBy, stored, RunnerTypes
<1>3. OthersRan' <=> OthersRan
  BY <1>2 DEF OthersRan
<1>4. \A q \in Proc : q # p => (Works(q, j)' <=> Works(q, j))
  BY <1>2 DEF KeptBy, Works, Busy, P
<1>5. CASE ~Works(p, j)
  <2>1. damage'[j] = damage[j]
    <3>1. CASE P(p) # j
      BY <1>1, <1>2, <3>1 DEF RunnerTypes
    <3>2. CASE P(p) = j
      <4>1. pc[p] \in {"acquire", "unlink"}
        BY <1>2, <1>5, <3>2 DEF Works, Busy
      <4>2. Harm(p) = damage[j]
        BY <3>2, <4>1 DEF Harm
      <4> QED
        BY <1>1, <1>2, <3>2, <4>2 DEF RunnerTypes
    <3> QED
      BY <3>1, <3>2
  <2>2. ~Works(p, j)'
    BY <1>2 DEF Works, Busy
  <2>3. \A q \in Proc : (Works(q, j)' <=> Works(q, j)) /\ (Works(q, j) => KeptBy(q))
    BY <1>2, <1>4, <1>5, <2>2
  <2> QED
    BY <1>2, <1>3, <2>1, <2>3, ServedStays
<1>6. CASE Works(p, j)
  <2>1. P(p) = j /\ OthersRan /\ pc[p] \notin {"idle", "crashed", "acquire", "unlink"}
    BY <1>6 DEF Works, Busy
  <2>2. \A q \in Proc : ~Works(q, j)'
    <3>1. \A q \in Proc : q # p => ~Works(q, j)
      BY <1>1, <1>6, WorksAlone
    <3>2. ~Works(p, j)'
      BY <1>2 DEF Works, Busy
    <3> QED
      BY <1>4, <3>1, <3>2
  <2>3. damage'[j] = Harm(p)
    BY <1>1, <1>2, <2>1 DEF RunnerTypes
  <2>4. Knows(p, j) /\ Control /\ Serves(p, j) /\ checkpoint[j] # NoCheckpoint
    BY <1>6, <2>1, AtWork DEF Served
  <2>5. /\ pc[p] \in Labels /\ run[p].op \in {"rebuild", "process_events"}
    BY <1>1, <1>2 DEF RunnerTypes
  <2>6. Harm(p) = "none" => Caught(j)
    <3> SUFFICES ASSUME Harm(p) = "none" PROVE Caught(j)
      OBVIOUS
    <3>1. damage[j] = "none"
      BY <2>1 DEF Harm
    <3>2. pc[p] \in {"clear", "release"} \/ run[p].op = "process_events"
      BY <2>1, <2>5 DEF Harm, Labels
    <3>3. pc[p] = "release" => result[p] = "ok"
      BY <2>4, <3>1 DEF Knows, Failed
    <3> QED
      BY <2>4, <3>1, <3>2, <3>3 DEF Serves
  <2> QED
    BY <1>2, <1>3, <2>1, <2>2, <2>3, <2>4, <2>6 DEF Served, Caught
<1> QED
  BY <1>5, <1>6

\* Another process makes a call.
LEMMA ServedAfterInvoke ==
  ASSUME Serialised, RunnerInvariant, NEW p \in Proc, NEW op \in {"rebuild", "process_events"}, NEW i \in Proj,
         Invoke(p, op, i), NEW j \in Proj, Served(j), UNCHANGED start, start.runs \in Nat, start.runs <= runs
  PROVE  Served(j)'
<1> DEFINE asked == [q \in {p} |-> [op |-> op, proj |-> i]]
<1>1. RunnerTypes
  BY DEF RunnerInvariant
<1>2. OthersRan'
  BY <1>1 DEF Invoke, OthersRan, RunnerTypes
<1>3. asked[p].op = op /\ asked[p].proj = i /\ DOMAIN asked = {p}
  OBVIOUS
<1>4. Call(asked)
  BY DEF Invoke
<1> HIDE DEF asked
<1>5. /\ pc[p] = "idle" /\ MayCall(op, i) /\ UNCHANGED <<log, stored, batch, local, damage, faults>>
      /\ pc'[p] = IF op = "rebuild" THEN "acquire" ELSE "read"
      /\ run'[p] = [op |-> op, proj |-> i, floor |-> Len(log)]
      /\ \A q \in Proc : q # p => KeptBy(q)
  BY <1>1, <1>3, <1>4 DEF Call, KeptBy, stored
<1>6. checkpoint' = checkpoint /\ damage' = damage
  BY <1>5 DEF stored
<1>7. ~Works(p, j) /\ \A q \in Proc : q # p => (Works(q, j)' <=> Works(q, j))
  BY <1>5 DEF KeptBy, Works, Busy, P
<1>8. CASE ~Works(p, j)'
  <2>1. \A q \in Proc : (Works(q, j)' <=> Works(q, j)) /\ (Works(q, j) => KeptBy(q))
    BY <1>5, <1>7, <1>8
  <2> QED
    BY <1>2, <1>6, <2>1, ServedStays
<1>9. CASE Works(p, j)'
  <2>1. op = "process_events" /\ i = j
    <3>1. run'[p].proj = i
      BY <1>5
    <3> QED
      BY <1>5, <1>9, <3>1 DEF Works, Busy, P
  <2>2. \A q \in Proc : ~Works(q, j)
    BY <1>5, <2>1 DEF MayCall, Works
  <2>3. damage[j] = "none" => Caught(j)
    BY <2>2 DEF Served
  <2>4. run'[p].op = "process_events" /\ pc'[p] = "read"
    BY <1>5, <2>1
  <2>5. Serves(p, j)'
    BY <1>6, <2>3, <2>4 DEF Serves, Caught
  <2> QED
    BY <1>2, <1>6, <1>7, <1>9, <2>2, <2>5 DEF Served
<1> QED
  BY <1>8, <1>9

\* Checkpoints are never removed.
LEMMA CheckpointsStay ==
  ASSUME RunnerInvariant, NEW p \in Proc, RunnerStep(p), NEW j \in Proj, checkpoint[j] # NoCheckpoint,
         UNCHANGED start, start.length \in Nat, start.length <= Len(log)
  PROVE  checkpoint'[j] # NoCheckpoint
<1>1. RunnerTypes
  BY DEF RunnerInvariant
<1>2. CASE P(p) # j
  BY <1>1, <1>2, StepFrame DEF StepOf, Kept
<1>3. CASE P(p) = j /\ pc[p] \in {"acquire", "unlink"}
  BY <1>1, <1>3, StepGoes DEF AcquireProjectionLock, JudgeLock, BreakLock, stored
<1>4. CASE P(p) = j /\ pc[p] \notin {"acquire", "unlink"}
  BY <1>4, WorkServes DEF LeavesServed
<1> QED
  BY <1>2, <1>3, <1>4

\* A step of a process while rebuild_all waits.
LEMMA SettledAfterStep ==
  ASSUME RebuilderInvariant, RebuildsExclude', StartTypes, OthersCounted, phase = "wait", NEW p \in Proc, RunnerStep(p),
         UNCHANGED rebuilderVars, NEW j \in Proj, Settled(j)
  PROVE  Settled(j)'
<1>1. /\ RunnerInvariant /\ RunnerTypes
      /\ UNCHANGED <<start, chosen>> /\ start.length \in Nat /\ start.length <= Len(log)
  BY DEF RebuilderInvariant, RunnerInvariant, StartTypes, rebuilderVars
<1>2. PICK t \in Task : t = TaskOf(j)
  BY RebuilderAssumption
<1>3. /\ t \in Proc /\ StepOf(p, P(p))
      /\ pc[p] \notin {"idle", "crashed"} /\ pc'[p] # "crashed"
      /\ pc'[p] # "idle" => run'[p] = run[p]
  BY <1>1, StepFrame, StepGoes, RebuilderAssumption
<1>4. CASE j \notin chosen
  BY <1>1, <1>4, CheckpointsStay DEF Settled
<1>5. CASE j \in chosen /\ p = t
  <2>1. run[p].op = "rebuild" /\ TaskOf(P(p)) = TaskOf(j)
    BY <1>2, <1>3, <1>5 DEF RebuilderInvariant
  <2>2. P(p) = j
    <3>1. P(p) \in Proj
      BY <1>1, <1>3 DEF RunnerTypes, P
    <3> QED
      BY <2>1, <3>1, RebuilderAssumption
  <2>3. start.length <= run[p].floor
    BY <1>2, <1>3, <1>5 DEF Settled
  <2>4. pc'[p] = "idle" => result'[p] \in {"ok", "error"} /\ (result'[p] = "ok" => Served(j)')
    BY <1>1, <2>1, <2>2, <2>3, TaskEnds
  <2> QED
    BY <1>1, <1>2, <1>3, <1>5, <2>3, <2>4 DEF Settled
<1>6. CASE j \in chosen /\ p # t
  <2>1. pc'[t] = pc[t] /\ run'[t] = run[t] /\ result'[t] = result[t]
    BY <1>3, <1>6 DEF StepOf, KeptBy
  <2>2. Busy(p, j) => OthersRan
    <3>1. Busy(p, j) /\ p \in Task => p = t
      BY <1>2 DEF RebuilderInvariant, Busy
    <3> QED
      BY <1>6, <3>1 DEF OthersCounted, Busy
  <2>3. Served(j) => Served(j)'
    BY <1>1, <2>2, ServedAfterStep
  <2> QED
    BY <1>1, <1>2, <1>6, <2>1, <2>3 DEF Settled
<1> QED
  BY <1>4, <1>5, <1>6

\* What does not touch a task leaves its projection settled, if it leaves it served.
LEMMA SettledStays ==
  ASSUME NEW j \in Proj, Settled(j), UNCHANGED <<start, chosen>>,
         checkpoint'[j] = checkpoint[j],
         pc'[TaskOf(j)] = pc[TaskOf(j)], run'[TaskOf(j)] = run[TaskOf(j)],
         result'[TaskOf(j)] = result[TaskOf(j)], Served(j) => Served(j)'
  PROVE  Settled(j)'
BY DEF Settled

\* Steps that leave where the rebuilder is as it was.
LEMMA HonestAside ==
  ASSUME Serialised, RebuildsExclude', HonestInvariant, UNCHANGED rebuilderVars,
         \/ \E p \in Proc : RunnerStep(p) \/ OtherProcess(p)
         \/ AppendEvent
  PROVE  StartTypes' /\ OthersCounted' /\ Looked' /\ AllSettled'
<1>1. /\ RebuilderInvariant /\ RunnerInvariant /\ RunnerTypes
      /\ StartTypes /\ OthersCounted /\ Looked /\ AllSettled
      /\ UNCHANGED <<phase, todo, chosen, start>>
      /\ start.length \in Nat /\ start.length <= Len(log) /\ start.runs \in Nat /\ start.runs <= runs
      /\ runs \in Nat /\ log \in Seq(Event) /\ Len(log) \in Nat
  BY LenProperties DEF HonestInvariant, RebuilderInvariant, RunnerInvariant, RunnerTypes, StartTypes, rebuilderVars
<1>2. Task \subseteq Proc /\ \A j \in Proj : TaskOf(j) \in Task
  BY RebuilderAssumption
<1>3. ASSUME NEW p \in Proc, RunnerStep(p) PROVE StartTypes' /\ OthersCounted' /\ Looked' /\ AllSettled'
  <2>1. StepOf(p, P(p)) /\ pc[p] \notin {"idle", "crashed"}
    BY <1>1, <1>3, StepFrame, StepGoes
  <2>2. UNCHANGED <<log, runs>>
    BY <1>3, <2>1
       DEF StepOf, RunnerStep, AcquireProjectionLock, JudgeLock, BreakLock, ClearStore, PassEvent, EndOfEvents,
           ReleaseProjectionLock, ResetCheckpoint, ReadAllEvents, StartProcessing, LoadState,
           SaveState, SaveCheckpoint, RebuildIndex
  <2>3. \A q \in Proc : pc'[q] # "idle" => pc[q] # "idle"
    BY <2>1 DEF StepOf, KeptBy
  <2>4. Looked'
    BY <1>1, <1>3, CheckpointsStay DEF Looked
  <2>5. AllSettled'
    BY <1>1, <1>3, SettledAfterStep DEF AllSettled
  <2>6. StartTypes' /\ OthersCounted'
    BY <1>1, <2>2, <2>3 DEF StartTypes, OthersCounted, OthersRan
  <2> QED
    BY <2>4, <2>5, <2>6
<1>4. CASE AppendEvent
  <2>1. UNCHANGED <<stored, pc, run, batch, local, result, damage, runs>> /\ \E e \in Kinds : log' = Append(log, e)
    BY <1>4 DEF AppendEvent
  <2>2. Len(log) <= Len(log') /\ Len(log') \in Nat
    <3>1. PICK e \in Kinds : log' = Append(log, e)
      BY <2>1
    <3>2. e \in Event
      BY RunnerAssumption
    <3> QED
      BY <1>1, <3>1, <3>2, AppendProperties, LenProperties
  <2>3. UNCHANGED <<checkpoint, damage>>
    BY <2>1 DEF stored
  <2>4. StartTypes' /\ OthersCounted' /\ Looked'
    BY <1>1, <2>1, <2>2, <2>3 DEF StartTypes, OthersCounted, OthersRan, Looked
  <2>5. AllSettled'
    BY <1>1, <2>1, <2>3 DEF AllSettled, Settled, Served, Serves, Caught, OthersRan, Works, Busy, P
  <2> QED
    BY <2>4, <2>5
<1>5. ASSUME NEW p \in Proc \ Task, Crash(p) PROVE StartTypes' /\ OthersCounted' /\ Looked' /\ AllSettled'
  <2>1. /\ UNCHANGED <<log, checkpoint, run, result, runs>> /\ pc[p] \notin {"idle", "crashed"}
        /\ \A q \in Proc : q # p => pc'[q] = pc[q]
    BY <1>5 DEF Crash, Kill, stored
  <2>2. StartTypes' /\ OthersCounted' /\ Looked'
    BY <1>1, <2>1 DEF StartTypes, OthersCounted, OthersRan, Looked
  <2>3. ASSUME phase = "wait", NEW j \in Proj PROVE Settled(j)'
    <3>1. OthersRan
      BY <1>1, <2>1, <2>3 DEF OthersCounted
    <3>2. Served(j) => Served(j)'
      BY <1>1, <1>5, <3>1, ServedAfterCrash
    <3>3. TaskOf(j) \in Proc /\ TaskOf(j) # p
      BY <1>2
    <3> QED
      BY <1>1, <2>1, <2>3, <3>2, <3>3, SettledStays DEF AllSettled
  <2> QED
    BY <1>1, <2>2, <2>3 DEF AllSettled
<1>6. ASSUME NEW p \in Proc \ Task, Restart(p) PROVE StartTypes' /\ OthersCounted' /\ Looked' /\ AllSettled'
  <2>1. /\ UNCHANGED <<log, stored, damage, runs>> /\ pc[p] = "crashed" /\ pc'[p] = "idle"
        /\ \A q \in Proc : q # p => KeptBy(q)
    BY <1>1, <1>6 DEF Restart, Return, Go, Finish, KeptBy, RunnerTypes
  <2>2. StartTypes' /\ OthersCounted' /\ Looked'
    BY <1>1, <2>1 DEF StartTypes, OthersCounted, OthersRan, Looked, KeptBy, stored
  <2>3. ASSUME phase = "wait", NEW j \in Proj PROVE Settled(j)'
    <3>1. \A q \in Proc : (Works(q, j)' <=> Works(q, j)) /\ (Works(q, j) => KeptBy(q))
      BY <2>1 DEF KeptBy, Works, Busy, P
    <3>2. Served(j) => Served(j)'
      BY <1>1, <2>1, <3>1, ServedStays DEF OthersRan, stored
    <3>3. TaskOf(j) \in Proc /\ TaskOf(j) # p
      BY <1>2
    <3>4. pc'[TaskOf(j)] = pc[TaskOf(j)] /\ run'[TaskOf(j)] = run[TaskOf(j)] /\ result'[TaskOf(j)] = result[TaskOf(j)]
      BY <2>1, <3>3 DEF KeptBy
    <3> QED
      BY <1>1, <2>1, <2>3, <3>2, <3>4, SettledStays DEF AllSettled, stored
  <2> QED
    BY <1>1, <2>2, <2>3 DEF AllSettled
<1>7. ASSUME NEW p \in Proc \ Task, NEW op \in {"rebuild", "process_events"}, NEW i \in Proj, Invoke(p, op, i)
      PROVE  StartTypes' /\ OthersCounted' /\ Looked' /\ AllSettled'
  <2>1. /\ UNCHANGED <<log, stored, damage>> /\ runs' = runs + 1
        /\ \A q \in Proc : q # p => pc'[q] = pc[q] /\ run'[q] = run[q] /\ result'[q] = result[q]
    BY <1>7 DEF Invoke, Call
  <2>2. OthersRan'
    BY <1>1, <2>1 DEF OthersRan
  <2>3. StartTypes' /\ OthersCounted' /\ Looked'
    BY <1>1, <2>1, <2>2 DEF StartTypes, OthersCounted, Looked, stored
  <2>4. ASSUME phase = "wait", NEW j \in Proj PROVE Settled(j)'
    <3>1. Served(j) => Served(j)'
      BY <1>1, <1>7, ServedAfterInvoke
    <3>2. TaskOf(j) \in Proc /\ TaskOf(j) # p
      BY <1>2
    <3> QED
      BY <1>1, <2>1, <2>4, <3>1, <3>2, SettledStays DEF AllSettled, stored
  <2> QED
    BY <1>1, <2>3, <2>4 DEF AllSettled
<1> QED
  BY <1>3, <1>4, <1>5, <1>6, <1>7 DEF OtherProcess

\* The invariant of rebuild_all is kept by every step.
LEMMA HonestInvariantStays ==
  ASSUME Serialised, RebuildsExclude', HonestInvariant, [RebuilderNext]_allVars
  PROVE  HonestInvariant'
<1>1. /\ RebuilderInvariant /\ RunnerTypes /\ StartTypes /\ OthersCounted /\ Looked /\ AllSettled
      /\ runs \in Nat /\ log \in Seq(Event) /\ Len(log) \in Nat
  BY LenProperties DEF HonestInvariant, RebuilderInvariant, RunnerInvariant, RunnerTypes
<1>2. RebuilderInvariant'
  BY <1>1, RebuilderInvariantStays
<1> SUFFICES StartTypes' /\ OthersCounted' /\ Looked' /\ AllSettled'
  BY <1>2 DEF HonestInvariant
<1>3. CASE UNCHANGED rebuilderVars /\ ((\E p \in Proc : RunnerStep(p) \/ OtherProcess(p)) \/ AppendEvent)
  BY <1>3, HonestAside
<1>4. CASE RebuildAll
  <2>1. /\ start' = [length |-> Len(log), runs |-> runs, alone |-> \A p \in Proc : pc[p] = "idle"]
        /\ UNCHANGED <<log, runs, pc>> /\ phase' = "check" /\ todo' = Proj
    BY <1>4 DEF RebuildAll, runnerVars
  <2>2. start'.length = Len(log) /\ start'.runs = runs /\ start'.alone = (\A p \in Proc : pc[p] = "idle")
    BY <2>1
  <2>3. StartTypes'
    BY <1>1, <2>1 DEF StartTypes
  <2>4. OthersCounted'
    BY <2>1, <2>2 DEF OthersCounted, OthersRan
  <2> QED
    BY <2>1, <2>3, <2>4 DEF Looked, AllSettled
<1>5. ASSUME NEW j \in Proj, NEW failed \in BOOLEAN, CheckProjection(j, failed)
      PROVE  StartTypes' /\ OthersCounted' /\ Looked' /\ AllSettled'
  <2>1. /\ phase = "check" /\ UNCHANGED <<log, checkpoint, pc, runs, phase, start>>
        /\ todo' = todo \ {j}
        /\ chosen' = IF force \/ failed \/ checkpoint[j] = NoCheckpoint THEN chosen \cup {j} ELSE chosen
    BY <1>5 DEF CheckProjection, stored
  <2>2. Looked'
    BY <1>1, <2>1 DEF Looked
  <2> QED
    BY <1>1, <2>1, <2>2 DEF StartTypes, OthersCounted, OthersRan, AllSettled
<1>6. CASE Launch
  <2>1. /\ phase = "check" /\ todo = {} /\ phase' = "wait" /\ UNCHANGED <<log, checkpoint, runs, chosen, start>>
    BY <1>6 DEF Launch, Call, stored
  <2>2. PICK S \in SUBSET Task : \E asked \in [S -> [op : {"rebuild"}, proj : Proj]] :
           Call(asked) /\ S = {TaskOf(j) : j \in chosen}
    BY <1>1, <1>6, LaunchCalls
  <2>3. PICK asked \in [S -> [op : {"rebuild"}, proj : Proj]] : Call(asked)
    BY <2>2
  <2>4. Task \subseteq Proc
    BY RebuilderAssumption
  <2>5. ASSUME NEW p \in S PROVE pc'[p] = "acquire" /\ run'[p].floor = Len(log)
    <3>1. run'[p] = [op |-> asked[p].op, proj |-> asked[p].proj, floor |-> Len(log)]
      BY <2>3, <2>4 DEF Call
    <3>2. pc'[p] = "acquire"
      BY <2>3, <2>4 DEF Call
    <3> QED
      BY <3>1, <3>2
  <2>6. \A p \in Proc \ Task : pc'[p] = pc[p]
    BY <2>3 DEF Call
  <2>7. StartTypes' /\ OthersCounted'
    BY <1>1, <2>1, <2>6 DEF StartTypes, OthersCounted, OthersRan
  <2>8. ASSUME NEW j \in Proj PROVE Settled(j)'
    <3>1. CASE j \notin chosen
      BY <1>1, <2>1, <3>1 DEF Looked, Settled
    <3>2. CASE j \in chosen
      <4>1. pc'[TaskOf(j)] = "acquire" /\ run'[TaskOf(j)].floor = Len(log)
        BY <2>2, <2>5, <3>2
      <4> QED
        BY <1>1, <2>1, <3>2, <4>1 DEF Settled, StartTypes
    <3> QED
      BY <3>1, <3>2
  <2> QED
    BY <2>1, <2>7, <2>8 DEF Looked, AllSettled
<1>7. CASE Collect \/ CrashRebuilder \/ RestartRebuilder
  <2>1. phase' \in {"idle", "crashed"} /\ UNCHANGED <<log, runs, start>>
    BY <1>7 DEF Collect, CrashRebuilder, RestartRebuilder, Kill, runnerVars
  <2> QED
    BY <1>1, <2>1 DEF StartTypes, OthersCounted, Looked, AllSettled
<1>8. CASE RebuilderQuiet \/ UNCHANGED allVars
  <2>1. UNCHANGED <<log, stored, pc, run, local, result, damage, runs, phase, todo, chosen, start>>
    BY <1>8 DEF RebuilderQuiet, RunnerQuiet, allVars, runnerVars, rebuilderVars
  <2>2. StartTypes' /\ OthersCounted' /\ Looked'
    BY <1>1, <2>1 DEF StartTypes, OthersCounted, OthersRan, Looked, stored
  <2>3. AllSettled'
    BY <1>1, <2>1 DEF AllSettled, Settled, Served, Serves, Caught, OthersRan, Works, Busy, P, stored
  <2> QED
    BY <2>2, <2>3
<1> QED
  BY <1>3, <1>4, <1>5, <1>6, <1>7, <1>8 DEF RebuilderNext, RebuilderStep

\* It holds of the initial state.
LEMMA HonestInit == RebuilderInit => HonestInvariant
<1> SUFFICES ASSUME RebuilderInit PROVE HonestInvariant
  OBVIOUS
<1>1. RebuilderInvariant /\ RunnerTypes
  BY RebuilderInitInvariant DEF RebuilderInvariant, RunnerInvariant
<1>2. start = [length |-> 0, runs |-> 0, alone |-> TRUE] /\ log = << >> /\ runs = 0 /\ phase = "idle"
  BY DEF RebuilderInit, RunnerInit
<1>3. StartTypes
  BY <1>2 DEF StartTypes
<1> QED
  BY <1>1, <1>2, <1>3 DEF HonestInvariant, OthersCounted, Looked, AllSettled

\* When rebuild_all returns, what it reports of each projection is true (rebuilder.rs
\* rebuild_all): named as failed, or rebuilt from all there was and not damaged since
\* but by others; and success leaves no projection without a checkpoint.
THEOREM RebuildAllIsHonestHolds ==
  ASSUME Serialised
  PROVE  RebuilderSpec /\ []RebuildsExclude => RebuildAllIsHonest
<1> DEFINE Honest ==
             phase = "wait" /\ phase' = "idle" =>
               /\ \A j \in chosen :
                    \/ j \in summary'.failed /\ ~summary'.success
                    \/ ~Unused(j) \/ (OthersRan /\ damage[j] # "none")
                    \/ damage[j] = "none" /\ (start.length > 1 => checkpoint[j] >= start.length - 1)
               /\ summary'.success => \A j \in Proj : checkpoint[j] # NoCheckpoint
<1>1. RebuilderSpec /\ []RebuildsExclude => []HonestInvariant
  <2>1. HonestInvariant /\ RebuildsExclude' /\ [RebuilderNext]_allVars => HonestInvariant'
    BY HonestInvariantStays
  <2> QED
    BY <2>1, HonestInit, PTL DEF RebuilderSpec
<1>2. ASSUME HonestInvariant, [RebuilderNext]_allVars PROVE Honest
  <2> SUFFICES ASSUME phase = "wait", phase' = "idle" PROVE Honest
    OBVIOUS
  <2>1. Collect
    BY <1>2
       DEF RebuilderNext, RebuilderStep, rebuilderVars, allVars, RebuildAll, CheckProjection, Launch,
           CrashRebuilder, RestartRebuilder, RebuilderQuiet
  <2> DEFINE failed == {j \in chosen : result[TaskOf(j)] = "error"}
  <2>2. summary' = [success |-> failed = {}, failed |-> failed] /\ \A j \in chosen : pc[TaskOf(j)] = "idle"
    BY <2>1 DEF Collect
  <2>3. summary'.failed = failed /\ (summary'.success <=> failed = {})
    BY <2>2
  <2>4. ASSUME NEW j \in chosen, j \notin failed PROVE Served(j)
    BY <1>2, <2>2, <2>4 DEF HonestInvariant, RebuilderInvariant, AllSettled, Settled
  <2>5. \A j \in chosen : j \in failed \/ Served(j)
    BY <2>4
  <2> HIDE DEF failed
  <2>6. ASSUME NEW j \in chosen, Served(j), Unused(j), ~(OthersRan /\ damage[j] # "none")
        PROVE  damage[j] = "none" /\ (start.length > 1 => checkpoint[j] >= start.length - 1)
    BY <2>6 DEF Served, Caught, Unused, Works
  <2>7. \A j \in Proj : j \in chosen \/ checkpoint[j] # NoCheckpoint
    BY <1>2 DEF HonestInvariant, AllSettled, Settled
  <2>8. summary'.success => \A j \in Proj : checkpoint[j] # NoCheckpoint
    BY <2>3, <2>5, <2>7 DEF Served
  <2> QED
    BY <2>3, <2>5, <2>6, <2>8
<1>3. RebuilderSpec /\ []RebuildsExclude => [][Honest]_allVars
  BY <1>1, <1>2, PTL DEF RebuilderSpec
<1> QED
  BY <1>3 DEF RebuildAllIsHonest

=============================================================================
