------------------------- MODULE FlushBufferProofs -------------------------
(***************************************************************************)
(* The buffers that are flushed implement the promise of LossyCounter, for *)
(* any set of keys and any number of flushes that overlap.                 *)
(***************************************************************************)
EXTENDS FlushBuffer, TLAPS, FiniteSetTheorems, WellFoundedInduction

Vectors == [Keys -> Int]

(* The types the proof needs.  That `inflight' is never negative is not    *)
(* needed: what leaves the memory is always a copy, and a copy has no      *)
(* negative entry.                                                         *)
Typed ==
    /\ meter \in [counted : Vectors, pending : Counts,
                  flight : [Flushers -> Counts], inflight : Vectors,
                  stored : Vectors, lost : Vectors, failures : Int]

\* Adding and subtracting, key by key.
LEMMA PlusMinus ==
    ASSUME NEW a \in Vectors, NEW b \in Vectors
    PROVE  /\ Plus(a, b) \in Vectors /\ Minus(a, b) \in Vectors
           /\ \A k \in Keys : /\ Plus(a, b)[k] = a[k] + b[k]
                              /\ Minus(a, b)[k] = a[k] - b[k]
BY DEF Plus, Minus, Vectors

\* Counts stay counts when counts are added.
LEMMA PlusCounts ==
    ASSUME NEW a \in Counts, NEW b \in Counts
    PROVE  Plus(a, b) \in Counts
BY DEF Plus, Counts

LEMMA CountsAreVectors == Counts \subseteq Vectors /\ Zero \in Counts
BY DEF Counts, Vectors, Zero

(* The types hold in every state: Init and each step.                      *)
LEMMA TypedInit == MeterInit => Typed
BY CountsAreVectors DEF MeterInit, Typed, Vectors

LEMMA TypedStep == Typed /\ [Next]_meter => Typed'
<1>1. SUFFICES ASSUME Typed, [Next]_meter PROVE Typed'
  OBVIOUS
<1> USE CountsAreVectors DEF Typed
<1>2. ASSUME NEW d \in Counts, Record(d) PROVE Typed'
  <2>1. Plus(meter.counted, d) \in Vectors /\ Plus(meter.pending, d) \in Counts
    BY <1>1, PlusMinus, PlusCounts
  <2>2. QED BY <1>1, <1>2, <2>1 DEF Record
<1>3. ASSUME NEW f \in Flushers, Take(f) PROVE Typed'
  <2>1. Plus(meter.inflight, meter.pending) \in Vectors
    BY <1>1, PlusMinus
  <2>2. QED BY <1>1, <1>3, <2>1 DEF Take
<1>4. ASSUME NEW f \in Flushers, Commit(f) PROVE Typed'
  <2>1. /\ meter.flight[f] \in Vectors
        /\ Plus(meter.stored, meter.flight[f]) \in Vectors
        /\ Minus(meter.inflight, meter.flight[f]) \in Vectors
    BY <1>1, PlusMinus
  <2>2. QED BY <1>1, <1>4, <2>1 DEF Commit
<1>5. ASSUME NEW f \in Flushers, Fail(f) PROVE Typed'
  <2>1. /\ meter.flight[f] \in Vectors
        /\ Plus(meter.lost, meter.flight[f]) \in Vectors
        /\ Minus(meter.inflight, meter.flight[f]) \in Vectors
    BY <1>1, PlusMinus
  <2>2. Zero \in Counts /\ meter.failures + 1 \in Int
    BY <1>1
  <2>3. [meter.flight EXCEPT ![f] = Zero] \in [Flushers -> Counts]
    BY <1>1, <2>2
  <2>4. meter' = [meter EXCEPT !.lost = Plus(meter.lost, meter.flight[f]),
                               !.flight = [meter.flight EXCEPT ![f] = Zero],
                               !.inflight = Minus(meter.inflight, meter.flight[f]),
                               !.failures = meter.failures + 1]
    BY <1>1, <1>5 DEF Fail
  <2> HIDE DEF Typed
  <2>5. QED BY <1>1, <2>1, <2>2, <2>3, <2>4 DEF Typed
<1>6. ASSUME Die PROVE Typed'
  <2>1. Plus(meter.pending, meter.inflight) \in Vectors
    BY <1>1, PlusMinus
  <2>2. Plus(meter.lost, Plus(meter.pending, meter.inflight)) \in Vectors
    BY <1>1, <2>1, PlusMinus
  <2>3. /\ Zero \in Counts /\ Zero \in Vectors /\ meter.failures + 1 \in Int
        /\ [f \in Flushers |-> Zero] \in [Flushers -> Counts]
    BY <1>1
  <2>4. QED BY <1>1, <1>6, <2>2, <2>3 DEF Die
<1>7. ASSUME UNCHANGED meter PROVE Typed'
  BY <1>1, <1>7
<1>8. QED BY <1>1, <1>2, <1>3, <1>4, <1>5, <1>6, <1>7 DEF Next

(* Where the counters of the abstract specification are read off.          *)
Waiting == Plus(meter.pending, meter.inflight)

(* The first state has counted nothing.                                    *)
LEMMA CounterInit == MeterInit => Counter!Init
<1>1. SUFFICES ASSUME MeterInit PROVE Counter!Init
  OBVIOUS
<1>2. Plus(Zero, Zero) = Zero
  BY DEF Plus, Zero
<1>3. QED BY <1>1, <1>2 DEF MeterInit, Counter!Init, Counter!Zero, Zero

(* Counting counts, a commit stores, a failure or a crash loses, and the   *)
(* copy that a flush takes changes nothing the promise is about.           *)
LEMMA CounterStep == Typed /\ [Next]_meter => [Counter!Next]_(Counter!vars)
<1>1. SUFFICES ASSUME Typed, [Next]_meter PROVE [Counter!Next]_(Counter!vars)
  OBVIOUS
<1>w. /\ Waiting \in Vectors
      /\ \A k \in Keys : Waiting[k] = meter.pending[k] + meter.inflight[k]
      /\ \A k \in Keys : meter.pending[k] \in Nat /\ meter.inflight[k] \in Int
  BY <1>1, CountsAreVectors, PlusMinus DEF Typed, Waiting, Counts, Vectors
<1>2. ASSUME NEW d \in Counts, Record(d) PROVE Counter!Count
  <2>1. /\ meter'.counted = Plus(meter.counted, d)
        /\ meter'.pending = Plus(meter.pending, d)
        /\ meter'.inflight = meter.inflight /\ meter'.stored = meter.stored
        /\ meter'.lost = meter.lost /\ meter'.failures = meter.failures
    BY <1>1, <1>2 DEF Record, Typed
  <2>2. ASSUME NEW k \in Keys
        PROVE  /\ meter'.counted[k] >= meter.counted[k]
               /\ Plus(meter'.pending, meter'.inflight)[k]
                    = Waiting[k] + (meter'.counted[k] - meter.counted[k])
    BY <1>1, <1>w, <2>1 DEF Plus, Typed, Counts, Vectors
  <2>3. QED BY <2>1, <2>2 DEF Counter!Count, Waiting
<1>3. ASSUME NEW f \in Flushers, Take(f) PROVE UNCHANGED Counter!vars
  <2>1. /\ meter'.pending = Zero
        /\ meter'.inflight = Plus(meter.inflight, meter.pending)
        /\ meter'.counted = meter.counted /\ meter'.stored = meter.stored
        /\ meter'.lost = meter.lost /\ meter'.failures = meter.failures
    BY <1>1, <1>3 DEF Take, Typed
  <2>2. Plus(meter'.pending, meter'.inflight) = Waiting
    BY <1>1, <1>w, <2>1 DEF Plus, Waiting, Zero, Typed, Counts, Vectors
  <2>3. QED BY <2>1, <2>2 DEF Counter!vars, Waiting
<1>4. ASSUME NEW f \in Flushers, Commit(f) PROVE Counter!Store
  <2>1. /\ meter'.stored = Plus(meter.stored, meter.flight[f])
        /\ meter'.inflight = Minus(meter.inflight, meter.flight[f])
        /\ meter'.counted = meter.counted /\ meter'.pending = meter.pending
        /\ meter'.lost = meter.lost /\ meter'.failures = meter.failures
    BY <1>1, <1>4 DEF Commit, Typed
  <2>2. ASSUME NEW k \in Keys
        PROVE  LET there == Plus(meter'.pending, meter'.inflight)[k]
               IN /\ meter'.stored[k] >= meter.stored[k]
                  /\ meter'.stored[k] = meter.stored[k] + (Waiting[k] - there)
    BY <1>1, <1>w, <2>1 DEF Plus, Minus, Typed, Counts, Vectors
  <2>3. QED BY <2>1, <2>2 DEF Counter!Store, Counter!MovesTo, Waiting
<1>5. ASSUME NEW f \in Flushers, Fail(f) PROVE Counter!Lose
  <2>1. /\ meter'.lost = Plus(meter.lost, meter.flight[f])
        /\ meter'.inflight = Minus(meter.inflight, meter.flight[f])
        /\ meter'.counted = meter.counted /\ meter'.pending = meter.pending
        /\ meter'.stored = meter.stored /\ meter'.failures = meter.failures + 1
    BY <1>1, <1>5 DEF Fail, Typed
  <2>2. ASSUME NEW k \in Keys
        PROVE  LET there == Plus(meter'.pending, meter'.inflight)[k]
               IN meter'.lost[k] = meter.lost[k] + (Waiting[k] - there)
    BY <1>1, <1>w, <2>1 DEF Plus, Minus, Typed, Counts, Vectors
  <2>3. QED BY <2>1, <2>2 DEF Counter!Lose, Counter!MovesTo, Waiting
<1>6. ASSUME Die PROVE Counter!Lose
  <2>1. /\ meter'.lost = Plus(meter.lost, Waiting)
        /\ meter'.pending = Zero /\ meter'.inflight = Zero
        /\ meter'.counted = meter.counted /\ meter'.stored = meter.stored
        /\ meter'.failures = meter.failures + 1
    BY <1>1, <1>6 DEF Die, Typed, Waiting
  <2>2. ASSUME NEW k \in Keys
        PROVE  LET there == Plus(meter'.pending, meter'.inflight)[k]
               IN meter'.lost[k] = meter.lost[k] + (Waiting[k] - there)
    BY <1>1, <1>w, <2>1 DEF Plus, Zero, Typed, Vectors
  <2>3. QED BY <2>1, <2>2 DEF Counter!Lose, Counter!MovesTo, Waiting
<1>7. ASSUME UNCHANGED meter PROVE UNCHANGED Counter!vars
  BY <1>7 DEF Counter!vars, Plus
<1>8. QED BY <1>1, <1>2, <1>3, <1>4, <1>5, <1>6, <1>7
    DEF Next, Counter!Next

(* A buffer that is flushed implements the lossy counter: an event is in   *)
(* the table at most once however flushes overlap, what is stored stays,   *)
(* and only a failed write or a crash loses anything (OsintUsage, LlmUsage *)
(* and NetFlow are instances).                                             *)
THEOREM FlushBufferImplementsCounter == Spec => Implemented
<1>1. MeterInit /\ [][Next]_meter => []Typed
  BY TypedInit, TypedStep, PTL
<1>2. QED BY <1>1, CounterInit, CounterStep, PTL
          DEF Spec, Implemented, Counter!Spec

----------------------------------------------------------------------------
(* The sum of the copies.  The fold that InFlightSums uses is recursive;   *)
(* that it is defined on a finite set, and what it is, is shown from the   *)
(* smallest set for which it would not be.                                 *)

(* The entries k of some copies added up, as InFlightSums does.            *)
FlightSum(fl, k, S) == MapThenSumSet(LAMBDA f : fl[f][k], S)

First(s) == CHOOSE x \in s : TRUE

\* g adds up the entries k of the copies, subset by subset.
Adds(g, fl, k, S) ==
    g = [s \in SUBSET S |-> IF s = {} THEN 0
                            ELSE fl[First(s)][k] + g[s \ {First(s)}]]

LEMMA FirstIn == \A s : s # {} => First(s) \in s
BY DEF First

\* Some sets of a set of subsets have no smaller one in it.
LEMMA SmallestThere ==
    ASSUME NEW S, IsFiniteSet(S), NEW B, B \subseteq SUBSET S, B # {}
    PROVE  \E T \in B : \A U \in B : U \subseteq T => U = T
<1> DEFINE Order == StrictSubsetOrdering(S)
<1>1. IsWellFoundedOn(Order, SUBSET S)
  BY FS_StrictSubsetOrderingWellFounded, FS_FiniteSubsetsOfFinite
<1>2. PICK T \in B : \A U \in B : ~(<<U, T>> \in Order)
  <2> HIDE DEF Order
  <2> QED
    BY <1>1, WFMin, Zenon
<1>3. ASSUME NEW U \in B, U \subseteq T, U # T PROVE FALSE
  <2>1. <<U, T>> \in (SUBSET S) \X (SUBSET S)
    OBVIOUS
  <2>2. <<U, T>> \in Order
    BY <1>3, <2>1 DEF StrictSubsetOrdering
  <2> QED
    BY <1>2, <2>2
<1> QED
  BY <1>3

\* Two such functions agree wherever both are defined.
LEMMA AddsAgree ==
    ASSUME NEW S, IsFiniteSet(S), NEW fl, NEW k,
           NEW U \in SUBSET S, NEW V \in SUBSET S, NEW a, NEW b,
           Adds(a, fl, k, U), Adds(b, fl, k, V)
    PROVE  \A w \in SUBSET (U \cap V) : a[w] = b[w]
<1> DEFINE B == {w \in SUBSET (U \cap V) : a[w] # b[w]}
<1>1. SUFFICES ASSUME B # {} PROVE FALSE
  OBVIOUS
<1>2. PICK w \in B : \A u \in B : u \subseteq w => u = w
  <2>1. B \subseteq SUBSET S
    OBVIOUS
  <2> HIDE DEF B
  <2> QED
    BY <1>1, <2>1, SmallestThere
<1>3. CASE w = {}
  BY <1>2, <1>3 DEF Adds
<1>4. CASE w # {}
  <2> DEFINE v == w \ {First(w)}
  <2>1. First(w) \in w
    BY <1>4, FirstIn
  <2>2. v \in SUBSET (U \cap V) /\ v # w /\ v \subseteq w
    BY <2>1
  <2>3. a[v] = b[v]
    BY <1>2, <2>2
  <2>4. a[w] = fl[First(w)][k] + a[v]
    BY <1>2, <1>4 DEF Adds
  <2>5. b[w] = fl[First(w)][k] + b[v]
    BY <1>2, <1>4 DEF Adds
  <2> QED
    BY <1>2, <2>3, <2>4, <2>5
<1> QED
  BY <1>3, <1>4

\* And there is one: if not, take a smallest set without, and build its
\* function from those of its subsets.
LEMMA AddsThere ==
    ASSUME NEW S, IsFiniteSet(S), NEW fl, NEW k
    PROVE  \E g : Adds(g, fl, k, S)
<1> DEFINE B == {T \in SUBSET S : \A g : ~Adds(g, fl, k, T)}
<1>1. SUFFICES ASSUME B # {} PROVE FALSE
  OBVIOUS
<1>2. PICK T \in B : \A U \in B : U \subseteq T => U = T
  <2>1. B \subseteq SUBSET S
    OBVIOUS
  <2> HIDE DEF B
  <2> QED
    BY <1>1, <2>1, SmallestThere
<1> DEFINE G(U) == CHOOSE g : Adds(g, fl, k, U)
           Less(s) == s \ {First(s)}
           h == [s \in SUBSET T |-> IF s = {} THEN 0
                                    ELSE fl[First(s)][k] + G(Less(s))[Less(s)]]
<1>3. ASSUME NEW U \in SUBSET T, U # T PROVE Adds(G(U), fl, k, U)
  <2>1. U \in SUBSET S /\ U \notin B
    BY <1>2, <1>3
  <2>2. \E g : Adds(g, fl, k, U)
    BY <2>1
  <2> QED
    BY <2>2
<1>4. \A s \in SUBSET T : s # {} => Less(s) \in SUBSET T /\ Less(s) # T /\ First(s) \in s
  BY FirstIn
<1> HIDE DEF G, Less
<1>5. ASSUME NEW u \in SUBSET T, u # T PROVE h[u] = G(u)[u]
  <2>1. Adds(G(u), fl, k, u)
    BY <1>3, <1>5
  <2>2. CASE u = {}
    BY <2>1, <2>2 DEF Adds
  <2>3. CASE u # {}
    <3>1. /\ Less(u) \in SUBSET T /\ Less(u) # T /\ Less(u) \subseteq u
      BY <1>4, <2>3 DEF Less
    <3>2. Adds(G(Less(u)), fl, k, Less(u))
      BY <1>3, <3>1
    <3>3. G(Less(u))[Less(u)] = G(u)[Less(u)]
      <4>1. u \in SUBSET S /\ Less(u) \in SUBSET S /\ Less(u) \in SUBSET (Less(u) \cap u)
        BY <1>2, <3>1
      <4> QED
        BY <2>1, <3>2, <4>1, AddsAgree
    <3>4. G(u)[u] = fl[First(u)][k] + G(u)[Less(u)]
      BY <2>1, <2>3 DEF Adds, Less
    <3> QED
      BY <2>3, <3>3, <3>4
  <2> QED
    BY <2>2, <2>3
<1>6. ASSUME NEW s \in SUBSET T, s # {} PROVE G(Less(s))[Less(s)] = h[Less(s)]
  <2> HIDE DEF h
  <2> QED
    BY <1>4, <1>5, <1>6
<1>7. h = [s \in SUBSET T |-> IF s = {} THEN 0 ELSE fl[First(s)][k] + h[Less(s)]]
  <2>1. \A s \in SUBSET T : (IF s = {} THEN 0 ELSE fl[First(s)][k] + G(Less(s))[Less(s)])
                          = (IF s = {} THEN 0 ELSE fl[First(s)][k] + h[Less(s)])
    <3> HIDE DEF h
    <3> QED
      BY <1>6
  <2> QED
    BY <2>1, Zenon
<1>8. Adds(h, fl, k, T)
  <2> HIDE DEF h
  <2> QED
    BY <1>7 DEF Adds, Less
<1> QED
  <2> HIDE DEF h
  <2> QED
    BY <1>2, <1>8

\* The fold of the community modules is such a function.
LEMMA FlightSumIs ==
    ASSUME NEW S, IsFiniteSet(S), NEW fl, NEW k
    PROVE  \E g : Adds(g, fl, k, S) /\ FlightSum(fl, k, S) = g[S]
<1> DEFINE g == CHOOSE f : Adds(f, fl, k, S)
<1>1. Adds(g, fl, k, S)
  BY AddsThere, Zenon
<1>2. FlightSum(fl, k, S) = g[S]
  BY DEF FlightSum, MapThenSumSet, MapThenFoldSet, Adds, First
<1> QED
  BY <1>1, <1>2

\* Two rows of copies that differ in one of them.
DifferAt(x, fl, to, k, S) ==
    /\ \A f \in S : fl[f][k] \in Int /\ to[f][k] \in Int
    /\ \A f \in S \ {x} : to[f][k] = fl[f][k]

\* Their sums differ by as much as that one does.
LEMMA SumChanges ==
    ASSUME NEW S, IsFiniteSet(S), NEW k, NEW x \in S, NEW fl, NEW to,
           DifferAt(x, fl, to, k, S)
    PROVE  /\ FlightSum(fl, k, S) \in Int
           /\ FlightSum(to, k, S) = FlightSum(fl, k, S) + (to[x][k] - fl[x][k])
<1>1. PICK a : Adds(a, fl, k, S) /\ FlightSum(fl, k, S) = a[S]
  BY FlightSumIs
<1>2. PICK b : Adds(b, to, k, S) /\ FlightSum(to, k, S) = b[S]
  BY FlightSumIs
<1> DEFINE Right(T) == a[T] \in Int /\ b[T] = a[T] + (IF x \in T THEN to[x][k] - fl[x][k] ELSE 0)
           B == {T \in SUBSET S : ~Right(T)}
<1>3. ASSUME B # {} PROVE FALSE
  <2>1. PICK T \in B : \A U \in B : U \subseteq T => U = T
    <3>1. B \subseteq SUBSET S
      OBVIOUS
    <3> HIDE DEF B
    <3> QED
      BY <1>3, <3>1, SmallestThere
  <2>2. CASE T = {}
    BY <1>1, <1>2, <2>1, <2>2 DEF Adds
  <2>3. CASE T # {}
    <3> DEFINE y == First(T)
               U == T \ {First(T)}
    <3>1. y \in T /\ y \in S
      BY <2>1, <2>3, FirstIn
    <3>2. U \in SUBSET S /\ U # T /\ U \subseteq T
      BY <2>1, <3>1
    <3>3. Right(U)
      BY <2>1, <3>2
    <3>4. a[T] = fl[y][k] + a[U] /\ b[T] = to[y][k] + b[U]
      BY <1>1, <1>2, <2>1, <2>3 DEF Adds
    <3>5. fl[y][k] \in Int /\ to[y][k] \in Int /\ fl[x][k] \in Int /\ to[x][k] \in Int
      BY <3>1 DEF DifferAt
    <3>6. y # x => to[y][k] = fl[y][k]
      BY <3>1 DEF DifferAt
    <3>7. x \in T <=> y = x \/ x \in U
      BY <3>1
    <3>8. y = x => x \notin U
      OBVIOUS
    <3> HIDE DEF y, U
    <3>9. Right(T)
      BY <3>3, <3>4, <3>5, <3>6, <3>7, <3>8
    <3> QED
      BY <2>1, <3>9
  <2> QED
    BY <2>2, <2>3
<1>4. Right(S)
  BY <1>3
<1> QED
  BY <1>1, <1>2, <1>4

\* The sum of nothing.
LEMMA SumOfNone ==
    ASSUME NEW S, IsFiniteSet(S), NEW k, NEW fl, \A f \in S : fl[f][k] = 0
    PROVE  FlightSum(fl, k, S) = 0
<1>1. PICK a : Adds(a, fl, k, S) /\ FlightSum(fl, k, S) = a[S]
  BY FlightSumIs
<1> DEFINE B == {T \in SUBSET S : a[T] # 0}
<1>2. ASSUME B # {} PROVE FALSE
  <2>1. PICK T \in B : \A U \in B : U \subseteq T => U = T
    <3>1. B \subseteq SUBSET S
      OBVIOUS
    <3> HIDE DEF B
    <3> QED
      BY <1>2, <3>1, SmallestThere
  <2>2. CASE T = {}
    BY <1>1, <2>1, <2>2 DEF Adds
  <2>3. CASE T # {}
    <3>1. First(T) \in T /\ First(T) \in S
      BY <2>1, <2>3, FirstIn
    <3>2. a[T \ {First(T)}] = 0
      BY <2>1, <3>1
    <3>3. a[T] = fl[First(T)][k] + a[T \ {First(T)}]
      BY <1>1, <2>1, <2>3 DEF Adds
    <3>4. a[T] = 0
      BY <3>1, <3>2, <3>3
    <3> QED
      BY <2>1, <3>4
  <2> QED
    BY <2>2, <2>3
<1> QED
  BY <1>1, <1>2

\* What the invariant says before and after a step.
LEMMA SumsRead ==
    /\ InFlightSums <=>
         \A k \in Keys : meter.inflight[k] = FlightSum(meter.flight, k, Flushers)
    /\ InFlightSums' <=>
         \A k \in Keys : meter'.inflight[k] = FlightSum(meter'.flight, k, Flushers)
BY DEF InFlightSums, FlightSum, MapThenSumSet, MapThenFoldSet

\* One copy changes, and the sum with it.
LEMMA SumsFollow ==
    ASSUME IsFiniteSet(Flushers), Typed, InFlightSums, NEW f \in Flushers, NEW c \in Counts,
           meter'.flight = [meter.flight EXCEPT ![f] = c],
           \A k \in Keys :
             meter'.inflight[k] = meter.inflight[k] + (c[k] - meter.flight[f][k])
    PROVE  InFlightSums'
<1>1. SUFFICES ASSUME NEW k \in Keys
               PROVE  meter'.inflight[k] = FlightSum(meter'.flight, k, Flushers)
  BY SumsRead
<1>2. /\ meter.flight \in [Flushers -> Counts] /\ meter'.flight \in [Flushers -> Counts]
      /\ meter'.flight[f] = c
      /\ \A g \in Flushers \ {f} : meter'.flight[g] = meter.flight[g]
  BY DEF Typed
<1>3. \A g \in Flushers : meter.flight[g][k] \in Int /\ meter'.flight[g][k] \in Int
  BY <1>2 DEF Counts
<1>4. FlightSum(meter'.flight, k, Flushers)
        = FlightSum(meter.flight, k, Flushers) + (c[k] - meter.flight[f][k])
  <2> DEFINE fl == meter.flight
             to == meter'.flight
  <2>1. DifferAt(f, fl, to, k, Flushers)
    BY <1>2, <1>3 DEF DifferAt
  <2>2. to[f][k] = c[k]
    BY <1>2
  <2> HIDE DEF fl, to
  <2>3. FlightSum(to, k, Flushers) = FlightSum(fl, k, Flushers) + (to[f][k] - fl[f][k])
    BY <2>1, SumChanges
  <2>4. QED BY <2>2, <2>3 DEF fl, to
<1>5. QED BY <1>4, SumsRead

LEMMA SumsInit == IsFiniteSet(Flushers) /\ MeterInit => InFlightSums
<1>1. SUFFICES ASSUME IsFiniteSet(Flushers), MeterInit, NEW k \in Keys
               PROVE  meter.inflight[k] = FlightSum(meter.flight, k, Flushers)
  BY SumsRead
<1>2. meter.inflight[k] = 0 /\ \A f \in Flushers : meter.flight[f][k] = 0
  BY <1>1 DEF MeterInit, Zero
<1>3. QED BY <1>1, <1>2, SumOfNone

LEMMA SumsStep ==
    IsFiniteSet(Flushers) /\ Typed /\ InFlightSums /\ [Next]_meter => InFlightSums'
<1>1. SUFFICES ASSUME IsFiniteSet(Flushers), Typed, InFlightSums, [Next]_meter
               PROVE  InFlightSums'
  OBVIOUS
<1>t. /\ meter.inflight \in Vectors /\ meter.pending \in Counts /\ Zero \in Counts
      /\ \A f \in Flushers : meter.flight[f] \in Counts
      /\ \A v \in Counts : \A k \in Keys : v[k] \in Nat
      /\ \A k \in Keys : meter.inflight[k] \in Int /\ Zero[k] = 0
  BY <1>1, CountsAreVectors DEF Typed, Counts, Vectors, Zero
<1>2. ASSUME NEW d \in Counts, Record(d) PROVE InFlightSums'
  <2>1. meter'.flight = meter.flight /\ meter'.inflight = meter.inflight
    BY <1>1, <1>2 DEF Record, Typed
  <2>2. QED BY <1>1, <2>1, SumsRead
<1>3. ASSUME NEW f \in Flushers, Take(f) PROVE InFlightSums'
  <2>1. /\ meter'.flight = [meter.flight EXCEPT ![f] = meter.pending]
        /\ meter'.inflight = Plus(meter.inflight, meter.pending)
        /\ meter.flight[f] = Zero
    BY <1>1, <1>3 DEF Take, Typed
  <2>2. \A k \in Keys : meter'.inflight[k]
                          = meter.inflight[k] + (meter.pending[k] - meter.flight[f][k])
    BY <1>t, <2>1 DEF Plus
  <2>3. QED BY <1>1, <1>t, <2>1, <2>2, SumsFollow
<1>4. ASSUME NEW f \in Flushers, Commit(f) \/ Fail(f) PROVE InFlightSums'
  <2>1. /\ meter'.flight = [meter.flight EXCEPT ![f] = Zero]
        /\ meter'.inflight = Minus(meter.inflight, meter.flight[f])
    BY <1>1, <1>4 DEF Commit, Fail, Typed
  <2>2. \A k \in Keys : meter'.inflight[k]
                          = meter.inflight[k] + (Zero[k] - meter.flight[f][k])
    BY <1>t, <2>1 DEF Minus
  <2>3. QED BY <1>1, <1>t, <2>1, <2>2, SumsFollow
<1>5. ASSUME Die PROVE InFlightSums'
  <2>1. /\ meter'.flight = [f \in Flushers |-> Zero] /\ meter'.inflight = Zero
    BY <1>1, <1>5 DEF Die, Typed
  <2>2. ASSUME NEW k \in Keys
        PROVE  meter'.inflight[k] = FlightSum(meter'.flight, k, Flushers)
    <3>1. meter'.inflight[k] = 0 /\ \A f \in Flushers : meter'.flight[f][k] = 0
      BY <1>t, <2>1
    <3>2. QED BY <1>1, <3>1, SumOfNone
  <2>3. QED BY <2>2, SumsRead
<1>6. ASSUME UNCHANGED meter PROVE InFlightSums'
  BY <1>1, <1>6, SumsRead
<1>7. QED BY <1>1, <1>2, <1>3, <1>4, <1>5, <1>6 DEF Next

(* `inflight', by which the promise is read off, is the sum of the copies  *)
(* that flushes are writing, however many there are: what counts as        *)
(* waiting is in the dictionary or in exactly one copy.                    *)
THEOREM CopiesAddUp ==
    ASSUME IsFiniteSet(Flushers)
    PROVE  Spec => []InFlightSums
<1>1. MeterInit => Typed /\ InFlightSums
  BY TypedInit, SumsInit
<1>2. Typed /\ InFlightSums /\ [Next]_meter => Typed' /\ InFlightSums'
  BY TypedStep, SumsStep
<1>3. QED BY <1>1, <1>2, PTL DEF Spec
=============================================================================
