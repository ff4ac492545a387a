---------------------- MODULE ContinuumAggregatorProofs ----------------------
(***************************************************************************)
(* What holds of the continuum aggregation for every number of inputs,     *)
(* every set of results, tolerance and timeout, with results arriving in   *)
(* any order and any number of times.                                      *)
(***************************************************************************)
EXTENDS ContinuumAggregator, FiniteSetTheorems, TLAPS

-----------------------------------------------------------------------------
(***************************************************************************)
(* Sums over finite sets.  SumFunctionOnSet takes out one chosen element   *)
(* after the other; that the sum does not depend on the choice is shown    *)
(* by looking at a smallest set for which it would.                        *)
(***************************************************************************)

\* g[s] is the sum of fun over s, for all s \subseteq T.
SumsOn(fun, T, g) ==
  g = [s \in SUBSET T |-> IF s = {} THEN 0
                          ELSE fun[CHOOSE x \in s : TRUE] + g[s \ {CHOOSE x \in s : TRUE}]]

\* The definition of SumFunctionOnSet, spelt out.
LEMMA SumByRecursion ==
  ASSUME NEW fun, NEW T
  PROVE  SumFunctionOnSet(fun, T) = (CHOOSE g : SumsOn(fun, T, g))[T]
BY Zenon DEF SumFunctionOnSet, FoldFunctionOnSet, MapThenFoldSet, SumsOn

\* Every non-empty collection of finite sets has a smallest member.
LEMMA SmallestSet ==
  ASSUME NEW B, B # {}, \A T \in B : IsFiniteSet(T)
  PROVE  \E T \in B : \A U \in B : U \subseteq T => U = T
<1> DEFINE Sizes == {Cardinality(T) : T \in B}
<1>1. Sizes \subseteq Nat /\ Sizes # {}
  BY FS_CardinalityType
<1>2. PICK n \in Sizes : \A m \in Sizes : ~(<<m, n>> \in OpToRel(<, Nat))
  <2> HIDE DEF Sizes
  <2> QED
    BY <1>1, NatLessThanWellFounded, WFMin, Zenon
<1>3. \A m \in Sizes : n <= m
  <2> TAKE m \in Sizes
  <2>1. ~(m < n)
    BY Zenon, <1>1, <1>2 DEF OpToRel
  <2> QED
    BY <2>1, <1>1
<1>4. PICK T \in B : Cardinality(T) = n
  OBVIOUS
<1>5. ASSUME NEW U \in B, U \subseteq T PROVE U = T
  <2>1. Cardinality(U) <= Cardinality(T) /\ (Cardinality(T) = Cardinality(U) => T = U)
    BY <1>5, FS_Subset
  <2>2. n <= Cardinality(U)
    BY <1>3
  <2> QED
    BY <2>1, <2>2, <1>1, <1>4, FS_CardinalityType
<1> QED
  BY <1>5

\* Two ways to sum over all subsets of a finite set give the same sums.
LEMMA SumsUnique ==
  ASSUME NEW fun, NEW T, IsFiniteSet(T), NEW g, SumsOn(fun, T, g),
         NEW U, T \subseteq U, NEW h, SumsOn(fun, U, h)
  PROVE  \A s \in SUBSET T : g[s] = h[s]
<1> DEFINE B == {s \in SUBSET T : g[s] # h[s]}
<1> SUFFICES ASSUME B # {} PROVE FALSE
  OBVIOUS
<1>1. \A s \in B : IsFiniteSet(s)
  BY FS_Subset
<1>2. PICK s \in B : \A u \in B : u \subseteq s => u = s
  <2> HIDE DEF B
  <2> QED
    BY <1>1, SmallestSet
<1> DEFINE x == CHOOSE x \in s : TRUE
<1>3. s # {}
  BY <1>2 DEF SumsOn
<1>4. x \in s
  BY <1>3
<1>5. g[s \ {x}] = h[s \ {x}]
  BY <1>2, <1>4
<1>6. g[s] = fun[x] + g[s \ {x}]
  BY <1>3 DEF SumsOn
<1>7. h[s] = fun[x] + h[s \ {x}]
  BY <1>3 DEF SumsOn
<1> QED
  BY <1>5, <1>6, <1>7

\* There is a way to sum over all subsets of a finite set.
LEMMA SumsExist ==
  ASSUME NEW fun, NEW S, IsFiniteSet(S)
  PROVE  \E g : SumsOn(fun, S, g)
<1> DEFINE B == {T \in SUBSET S : ~ \E g : SumsOn(fun, T, g)}
<1> SUFFICES ASSUME B # {} PROVE FALSE
  OBVIOUS
<1>1. \A T \in B : IsFiniteSet(T)
  BY FS_Subset
<1>2. PICK T \in B : \A U \in B : U \subseteq T => U = T
  <2> HIDE DEF B
  <2> QED
    BY <1>1, SmallestSet
<1> DEFINE Of(U) == CHOOSE g : SumsOn(fun, U, g)
           X(s) == CHOOSE x \in s : TRUE
           G == [s \in SUBSET T |-> IF s = {} THEN 0
                                    ELSE fun[X(s)] + Of(s \ {X(s)})[s \ {X(s)}]]
<1>3. ASSUME NEW U \in SUBSET T, U # T PROVE SumsOn(fun, U, Of(U)) /\ IsFiniteSet(U)
  BY <1>2, <1>3, FS_Subset
<1>4. ASSUME NEW s \in SUBSET T, s # {}
      PROVE  G[s] = fun[X(s)] + G[s \ {X(s)}]
  <2> DEFINE u == s \ {X(s)}
  <2>1. X(s) \in s /\ u \in SUBSET T /\ u # T
    BY <1>4
  <2>2. SumsOn(fun, u, Of(u)) /\ IsFiniteSet(u)
    BY <2>1, <1>3
  <2>3. G[u] = Of(u)[u]
    <3>1. CASE u = {}
      BY <2>2, <3>1 DEF SumsOn
    <3>2. CASE u # {}
      <4> DEFINE v == u \ {X(u)}
      <4>1. v \in SUBSET T /\ v # T /\ v \subseteq u
        BY <2>1, <3>2
      <4>2. SumsOn(fun, v, Of(v)) /\ IsFiniteSet(v)
        BY <4>1, <1>3
      <4>3. Of(v)[v] = Of(u)[v]
        <5> HIDE DEF Of, u, v
        <5> QED
          BY <4>1, <4>2, <2>2, SumsUnique
      <4>4. Of(u)[u] = fun[X(u)] + Of(u)[v]
        BY <2>2, <3>2 DEF SumsOn
      <4>5. G[u] = fun[X(u)] + Of(v)[v]
        BY <2>1, <3>2
      <4> QED
        BY <4>3, <4>4, <4>5
    <3> QED
      BY <3>1, <3>2
  <2> QED
    BY <2>3, <1>4
<1>5. SumsOn(fun, T, G)
  <2> DEFINE H == [s \in SUBSET T |-> IF s = {} THEN 0 ELSE fun[X(s)] + G[s \ {X(s)}]]
  <2>1. G = H
    <3>1. \A s \in SUBSET T : s # {} => H[s] = G[s]
      BY <1>4
    <3>2. {} \in SUBSET T => H[{}] = 0 /\ G[{}] = 0
      OBVIOUS
    <3>3. DOMAIN G = SUBSET T /\ DOMAIN H = SUBSET T
      OBVIOUS
    <3>4. \A s \in SUBSET T : H[s] = G[s]
      BY <3>1, <3>2
    <3>5. G = [s \in SUBSET T |-> G[s]] /\ H = [s \in SUBSET T |-> H[s]]
      OBVIOUS
    <3> HIDE DEF G, H
    <3> QED
      BY <3>4, <3>5
  <2> QED
    BY <2>1 DEF SumsOn
<1> QED
  BY <1>2, <1>5

\* A sum is the chosen element's share and the sum over the rest.
LEMMA SumChosen ==
  ASSUME NEW fun, NEW S, IsFiniteSet(S)
  PROVE  /\ SumFunctionOnSet(fun, {}) = 0
         /\ S # {} => SumFunctionOnSet(fun, S) =
                        fun[CHOOSE x \in S : TRUE]
                        + SumFunctionOnSet(fun, S \ {CHOOSE x \in S : TRUE})
<1> DEFINE Of(U) == CHOOSE g : SumsOn(fun, U, g)
           x == CHOOSE y \in S : TRUE
           R == S \ {x}
<1>1. \A U : IsFiniteSet(U) => SumsOn(fun, U, Of(U))
  BY SumsExist
<1>2. SumsOn(fun, {}, Of({})) /\ IsFiniteSet(R) /\ SumsOn(fun, R, Of(R)) /\ SumsOn(fun, S, Of(S))
  BY <1>1, FS_EmptySet, FS_RemoveElement
<1>3. \A U : SumFunctionOnSet(fun, U) = Of(U)[U]
  BY SumByRecursion
<1>4. Of({})[{}] = 0
  BY <1>2, ZenonT(30) DEF SumsOn
<1>5. S # {} => Of(S)[S] = fun[x] + Of(S)[R]
  BY <1>2 DEF SumsOn
<1>6. Of(S)[R] = Of(R)[R]
  <2> HIDE DEF Of, x
  <2>1. R \subseteq S
    OBVIOUS
  <2> HIDE DEF R
  <2> QED
    BY <1>2, <2>1, SumsUnique
<1> QED
  BY <1>3, <1>4, <1>5, <1>6

\* ... and a natural number, whichever element is taken out first.
LEMMA SumTakeOut ==
  ASSUME NEW D, NEW fun \in [D -> Nat], NEW S \in SUBSET D, IsFiniteSet(S)
  PROVE  /\ SumFunctionOnSet(fun, S) \in Nat
         /\ \A x \in S : SumFunctionOnSet(fun, S) = fun[x] + SumFunctionOnSet(fun, S \ {x})
<1> DEFINE Good(T) ==
             /\ SumFunctionOnSet(fun, T) \in Nat
             /\ \A x \in T : SumFunctionOnSet(fun, T) = fun[x] + SumFunctionOnSet(fun, T \ {x})
           B == {T \in SUBSET S : ~Good(T)}
<1> SUFFICES ASSUME B # {} PROVE FALSE
  OBVIOUS
<1>1. \A T \in B : IsFiniteSet(T)
  BY FS_Subset
<1>2. PICK T \in B : \A U \in B : U \subseteq T => U = T
  <2> HIDE DEF B
  <2> QED
    BY <1>1, SmallestSet
<1>3. IsFiniteSet(T) /\ T \subseteq D
  BY <1>1
<1> DEFINE y == CHOOSE y \in T : TRUE
<1>4. CASE T = {}
  <2>1. SumFunctionOnSet(fun, {}) = 0
    BY SumChosen, FS_EmptySet
  <2> QED
    BY <1>2, <1>4, <2>1
<1>5. CASE T # {}
  <2>1. y \in T /\ fun[y] \in Nat
    BY <1>3, <1>5
  <2>2. SumFunctionOnSet(fun, T) = fun[y] + SumFunctionOnSet(fun, T \ {y})
    BY <1>3, <1>5, SumChosen
  <2>3. \A x \in T : Good(T \ {x})
    BY <1>2
  <2>4. SumFunctionOnSet(fun, T) \in Nat
    <3>1. SumFunctionOnSet(fun, T \ {y}) \in Nat
      BY <2>1, <2>3
    <3> QED
      BY <2>1, <2>2, <3>1
  <2>5. ASSUME NEW x \in T
        PROVE  SumFunctionOnSet(fun, T) = fun[x] + SumFunctionOnSet(fun, T \ {x})
    <3>1. CASE x = y
      BY <2>2, <3>1
    <3>2. CASE x # y
      <4>1. SumFunctionOnSet(fun, T \ {y}) = fun[x] + SumFunctionOnSet(fun, (T \ {y}) \ {x})
        BY <2>1, <2>3, <3>2
      <4>2. SumFunctionOnSet(fun, T \ {x}) = fun[y] + SumFunctionOnSet(fun, (T \ {x}) \ {y})
        BY <2>1, <2>3, <3>2
      <4>3. (T \ {x}) \ {y} = (T \ {y}) \ {x}
        OBVIOUS
      <4>4. T \ {x} \in SUBSET S /\ T \ {y} \in SUBSET S /\ (T \ {y}) \ {x} \in SUBSET S
        OBVIOUS
      <4>5. SumFunctionOnSet(fun, (T \ {y}) \ {x}) \in Nat
        <5>1. (T \ {y}) \ {x} \notin B
          BY <1>2, <2>1
        <5> QED
          BY <4>4, <5>1
      <4>6. fun[x] \in Nat
        BY <1>3
      <4> QED
        BY <2>1, <2>2, <4>1, <4>2, <4>3, <4>5, <4>6
    <3> QED
      BY <3>1, <3>2
  <2> QED
    BY <1>2, <2>4, <2>5
<1> QED
  BY <1>4, <1>5

-----------------------------------------------------------------------------
(***************************************************************************)
(* FramesAgree, and that received_inputs is a number at all: a frame's set *)
(* of inputs is finite.                                                    *)
(***************************************************************************)
FramesCount ==
  \A f \in frames :
    /\ IsFiniteSet(f.inputs)
    /\ f.received = Cardinality(f.inputs)
    /\ f.power = SumFunctionOnSet(Power, f.inputs)

IInv == TypeOK /\ FramesApart /\ FramesCount

\* A frame as find_continuum_frame returns it: possibly without an input yet.
FoundFrame == [ts : Nat, start : Nat, noise : {0, 1}, exposure : Nat, power : Nat,
               received : 0..(ContinuumInputs - 1), inputs : SUBSET Inputs,
               age : 0..FrameTimeout]

LEMMA DistanceFacts ==
  ASSUME NEW a \in Nat, NEW b \in Nat
  PROVE  /\ Distance(a, b) \in Nat
         /\ Distance(a, b) = Distance(b, a)
         /\ a >= b => Distance(a, b) = a - b
BY DEF Distance

LEMMA InitInv == Init => IInv
<1> SUFFICES ASSUME Init PROVE IInv
  OBVIOUS
<1>1. TypeOK
  BY AggregatorAssumption DEF Init, TypeOK
<1>2. FramesApart /\ FramesCount
  BY DEF Init, FramesApart, FramesCount
<1> QED
  BY <1>1, <1>2 DEF IInv

(***************************************************************************)
(* Of the frames near t at most one is not below it and at most one is, so *)
(* find_continuum_frame finds one whenever there is one.                   *)
(***************************************************************************)
LEMMA FindFinds ==
  ASSUME TypeOK, FramesApart, NEW t \in Nat, Near(t) # {}
  PROVE  Find(t) \in Near(t)
<1> USE AggregatorAssumption
<1>1. \A f \in Near(t) : f \in frames /\ f.ts \in Nat /\ Distance(f.ts, t) <= Tolerance
  BY DEF TypeOK, Frame, Near
<1>2. \A f, g \in Near(t) : f.ts >= t /\ g.ts >= t => f = g
  <2> SUFFICES ASSUME NEW f \in Near(t), NEW g \in Near(t), f.ts >= t, g.ts >= t, f # g
               PROVE  FALSE
    OBVIOUS
  <2>1. f.ts \in t..(t + Tolerance) /\ g.ts \in t..(t + Tolerance)
    BY <1>1 DEF Distance
  <2>2. Distance(f.ts, g.ts) > Tolerance
    BY <1>1 DEF FramesApart
  <2> QED
    BY <2>1, <2>2 DEF Distance
<1>3. \A f, g \in Near(t) : f.ts < t /\ g.ts < t => f = g
  <2> SUFFICES ASSUME NEW f \in Near(t), NEW g \in Near(t), f.ts < t, g.ts < t, f # g
               PROVE  FALSE
    OBVIOUS
  <2>1. f.ts \in (t - Tolerance)..t /\ g.ts \in (t - Tolerance)..t
    BY <1>1 DEF Distance
  <2>2. Distance(f.ts, g.ts) > Tolerance
    BY <1>1 DEF FramesApart
  <2> QED
    BY <2>1, <2>2 DEF Distance
<1> DEFINE First(f) == \/ f.ts >= t /\ \A g \in Near(t) : g.ts >= t => f.ts <= g.ts
                       \/ f.ts < t /\ \A g \in Near(t) : g.ts < t /\ g.ts <= f.ts
<1>4. \E f \in Near(t) : First(f)
  <2>1. CASE \E f \in Near(t) : f.ts >= t
    <3>1. PICK f \in Near(t) : f.ts >= t
      BY <2>1
    <3>2. \A g \in Near(t) : g.ts >= t => f.ts <= g.ts
      BY <1>1, <1>2, <3>1
    <3> QED
      BY <3>1, <3>2
  <2>2. CASE \A f \in Near(t) : f.ts < t
    <3>1. PICK f \in Near(t) : f.ts < t
      BY <2>2
    <3>2. \A g \in Near(t) : g.ts < t /\ g.ts <= f.ts
      BY <1>1, <1>3, <2>2, <3>1
    <3> QED
      BY <3>1, <3>2
  <2> QED
    BY <1>1, <2>1, <2>2
<1>5. Find(t) = CHOOSE f \in Near(t) : First(f)
  BY DEF Find
<1> QED
  BY <1>4, <1>5

\* The frame a result goes to is far from all others and counts its inputs.
LEMMA FrameForFacts ==
  ASSUME IInv, NEW r \in Results
  PROVE  /\ FrameFor(r) \in FoundFrame
         /\ \A g \in frames \ {FrameFor(r)} : Distance(FrameFor(r).ts, g.ts) > Tolerance
         /\ IsFiniteSet(FrameFor(r).inputs)
         /\ FrameFor(r).received = Cardinality(FrameFor(r).inputs)
         /\ FrameFor(r).power = SumFunctionOnSet(Power, FrameFor(r).inputs)
<1> USE AggregatorAssumption DEF IInv
<1>1. /\ r.of \in Nat /\ r.ts \in Nat /\ r.start \in Nat /\ r.noise \in {0, 1}
      /\ r.exposure \in Nat /\ r.input \in Inputs
  BY DEF Result
<1>2. CASE Near(r.ts) = {}
  <2>1. FrameFor(r) = NewFrame(r)
    BY <1>2 DEF FrameFor
  <2>2. NewFrame(r) \in FoundFrame /\ NewFrame(r).ts = r.ts
    BY <1>1 DEF NewFrame, FoundFrame
  <2>3. \A g \in frames : Distance(r.ts, g.ts) > Tolerance
    <3> SUFFICES ASSUME NEW g \in frames PROVE Distance(r.ts, g.ts) > Tolerance
      OBVIOUS
    <3>1. g.ts \in Nat
      BY DEF TypeOK, Frame
    <3>2. ~(Distance(g.ts, r.ts) <= Tolerance)
      BY <1>2 DEF Near
    <3>3. Distance(g.ts, r.ts) \in Nat /\ Distance(g.ts, r.ts) = Distance(r.ts, g.ts)
      BY <1>1, <3>1, DistanceFacts
    <3> QED
      BY <3>2, <3>3
  <2>4. NewFrame(r).inputs = {} /\ NewFrame(r).received = 0 /\ NewFrame(r).power = 0
    BY DEF NewFrame
  <2>5. SumFunctionOnSet(Power, {}) = 0
    BY SumChosen, FS_EmptySet
  <2> QED
    BY <2>1, <2>2, <2>3, <2>4, <2>5, FS_EmptySet
<1>3. CASE Near(r.ts) # {}
  <2>1. FrameFor(r) = Find(r.ts)
    BY <1>3 DEF FrameFor
  <2>2. FrameFor(r) \in frames
    BY <1>1, <1>3, <2>1, FindFinds DEF Near
  <2>3. FrameFor(r) \in Frame
    BY <2>2 DEF TypeOK
  <2>4. FrameFor(r) \in FoundFrame
    BY <2>3 DEF Frame, FoundFrame
  <2> QED
    BY <2>2, <2>4 DEF FramesApart, FramesCount
<1> QED
  BY <1>2, <1>3

\* What counting one more input does to a frame.
LEMMA CountedFacts ==
  ASSUME NEW r \in Results, NEW f \in FoundFrame, r.input \notin f.inputs,
         IsFiniteSet(f.inputs), f.received = Cardinality(f.inputs),
         f.power = SumFunctionOnSet(Power, f.inputs)
  PROVE  /\ Counted(f, r).ts = f.ts
         /\ Counted(f, r).power \in Nat
         /\ IsFiniteSet(Counted(f, r).inputs)
         /\ Counted(f, r).received = Cardinality(Counted(f, r).inputs)
         /\ Counted(f, r).power = SumFunctionOnSet(Power, Counted(f, r).inputs)
         /\ ~Complete(Counted(f, r)) => Counted(f, r) \in Frame
<1> USE AggregatorAssumption
<1>1. r.input \in Inputs /\ Power[r.input] \in Nat
  BY DEF Result
<1>2. /\ Counted(f, r).ts = f.ts
      /\ Counted(f, r).power = f.power + Power[r.input]
      /\ Counted(f, r).received = f.received + 1
      /\ Counted(f, r).inputs = f.inputs \cup {r.input}
  BY DEF Counted, FoundFrame
<1>3. IsFiniteSet(f.inputs \cup {r.input})
      /\ Cardinality(f.inputs \cup {r.input}) = Cardinality(f.inputs) + 1
  BY FS_AddElement
<1>4. ASSUME ~Complete(Counted(f, r)) PROVE Counted(f, r) \in Frame
  <2>1. f.received + 1 \in 1..(ContinuumInputs - 1)
    BY <1>2, <1>4 DEF Complete, FoundFrame
  <2>2. f.power + Power[r.input] \in Nat /\ f.inputs \cup {r.input} \in SUBSET Inputs
    BY <1>1 DEF FoundFrame
  <2> QED
    BY <2>1, <2>2 DEF Counted, FoundFrame, Frame
<1>5. Counted(f, r).power \in Nat
  BY <1>1, <1>2 DEF FoundFrame
<1>6. f.power + Power[r.input] = SumFunctionOnSet(Power, f.inputs \cup {r.input})
  <2> DEFINE S == f.inputs \cup {r.input}
  <2>1. S \in SUBSET Inputs /\ IsFiniteSet(S) /\ r.input \in S /\ S \ {r.input} = f.inputs
    BY <1>1, <1>3 DEF FoundFrame
  <2> HIDE DEF S
  <2>2. SumFunctionOnSet(Power, S) = Power[r.input] + SumFunctionOnSet(Power, S \ {r.input})
    BY <2>1, SumTakeOut
  <2>3. f.power \in Nat
    BY DEF FoundFrame
  <2>4. f.power + Power[r.input] = SumFunctionOnSet(Power, S)
    <3>1. SumFunctionOnSet(Power, S \ {r.input}) = f.power
      BY <2>1
    <3> QED
      BY <1>1, <2>2, <2>3, <3>1
  <2> QED
    BY <2>4 DEF S
<1> QED
  BY <1>2, <1>3, <1>4, <1>5, <1>6

\* Fewer frames are still apart and still count their inputs.
LEMMA FewerFrames ==
  ASSUME FramesApart, FramesCount, frames' \subseteq frames
  PROVE  FramesApart' /\ FramesCount'
BY DEF FramesApart, FramesCount, Distance

LEMMA AccumulateInv ==
  ASSUME IInv, NEW r \in Results, Accumulate(r)
  PROVE  IInv'
<1> USE AggregatorAssumption
<1> DEFINE f == FrameFor(r)
<1>1. /\ f \in FoundFrame
      /\ \A g \in frames \ {f} : Distance(f.ts, g.ts) > Tolerance
      /\ IsFiniteSet(f.inputs) /\ f.received = Cardinality(f.inputs)
      /\ f.power = SumFunctionOnSet(Power, f.inputs)
  BY FrameForFacts
<1>2. /\ arrived' = [arrived EXCEPT ![r] = @ + 1]
      /\ pc' = "sweep" /\ sinceSweep' = sinceSweep
      /\ Discard(r, f) \/ Repeat(r, f) \/ Add(r, f) \/ Finish(r, f)
  BY DEF Accumulate
<1> HIDE DEF f
<1>3. /\ arrived' \in [Results -> Nat] /\ pc' \in {"wait", "sweep"}
      /\ sinceSweep' \in 0..SweepPeriod
  BY <1>2 DEF IInv, TypeOK
<1>4. CASE Discard(r, f) \/ Repeat(r, f)
  <2>1. frames' \subseteq frames /\ written' = written
    BY <1>4 DEF Discard, Repeat
  <2>2. TypeOK'
    BY <1>3, <2>1 DEF IInv, TypeOK
  <2> QED
    BY <2>1, <2>2, FewerFrames DEF IInv
<1>5. CASE Add(r, f)
  <2> DEFINE c == Counted(f, r)
  <2>1. frames' = (frames \ {f}) \cup {c} /\ written' = written
    BY <1>5 DEF Add
  <2>2. /\ c.ts = f.ts /\ c \in Frame
        /\ IsFiniteSet(c.inputs) /\ c.received = Cardinality(c.inputs)
        /\ c.power = SumFunctionOnSet(Power, c.inputs)
    BY <1>1, <1>5, CountedFacts DEF Add
  <2> HIDE DEF c
  <2>3. TypeOK'
    BY <1>3, <2>1, <2>2 DEF IInv, TypeOK
  <2>4. FramesApart'
    <3>1. \A g \in frames \ {f} : Distance(c.ts, g.ts) > Tolerance
                                  /\ Distance(g.ts, c.ts) > Tolerance
      <4> SUFFICES ASSUME NEW g \in frames \ {f}
                   PROVE  Distance(c.ts, g.ts) > Tolerance /\ Distance(g.ts, c.ts) > Tolerance
        OBVIOUS
      <4>1. g.ts \in Nat /\ c.ts \in Nat
        BY <2>2 DEF IInv, TypeOK, Frame
      <4>2. Distance(f.ts, g.ts) > Tolerance
        BY <1>1
      <4>3. Distance(c.ts, g.ts) = Distance(g.ts, c.ts)
        BY <4>1, DistanceFacts
      <4> QED
        BY <2>2, <4>2, <4>3
    <3>2. \A g, h \in frames : g # h => Distance(g.ts, h.ts) > Tolerance
      BY DEF IInv, FramesApart
    <3>3. \A g, h \in frames' : g # h => Distance(g.ts, h.ts) > Tolerance
      BY <2>1, <3>1, <3>2
    <3> QED
      BY <3>3 DEF FramesApart, Distance
  <2>5. FramesCount'
    BY <2>1, <2>2 DEF IInv, FramesCount
  <2> QED
    BY <2>3, <2>4, <2>5 DEF IInv
<1>6. CASE Finish(r, f)
  <2> DEFINE w == [of |-> r.of, start |-> f.start, noise |-> f.noise,
                   power |-> Counted(f, r).power]
  <2>1. frames' \subseteq frames /\ written' = Append(written, w)
    BY <1>6 DEF Finish
  <2>2. Counted(f, r).power \in Nat
    BY <1>1, <1>6, CountedFacts DEF Finish
  <2>3. w \in Written
    BY <1>1, <2>2 DEF Written, FoundFrame, Result
  <2> HIDE DEF w
  <2>4. written' \in Seq(Written)
    BY <2>1, <2>3 DEF IInv, TypeOK
  <2>5. TypeOK'
    BY <1>3, <2>1, <2>4 DEF IInv, TypeOK
  <2> QED
    BY <2>1, <2>5, FewerFrames DEF IInv
<1> QED
  BY <1>2, <1>4, <1>5, <1>6

\* A second older, a frame is otherwise the same.
Older(f) == [f EXCEPT !.age = IF @ < FrameTimeout THEN @ + 1 ELSE @]

LEMMA TickInv ==
  ASSUME IInv, Tick
  PROVE  IInv'
<1> USE AggregatorAssumption
<1>1. frames' = {Older(f) : f \in frames}
  BY DEF Tick, Older
<1>2. \A f \in frames : /\ Older(f) \in Frame
                        /\ Older(f).ts = f.ts
                        /\ Older(f).inputs = f.inputs
                        /\ Older(f).received = f.received
                        /\ Older(f).power = f.power
  <2> SUFFICES ASSUME NEW f \in Frame
               PROVE  /\ Older(f) \in Frame
                      /\ Older(f).ts = f.ts
                      /\ Older(f).inputs = f.inputs
                      /\ Older(f).received = f.received
                      /\ Older(f).power = f.power
    BY DEF IInv, TypeOK
  <2>1. f.age \in 0..FrameTimeout
    BY DEF Frame
  <2>2. (IF f.age < FrameTimeout THEN f.age + 1 ELSE f.age) \in 0..FrameTimeout
    BY <2>1
  <2> QED
    BY <2>2 DEF Older, Frame
<1>3. TypeOK'
  <2>1. frames' \subseteq Frame
    BY <1>1, <1>2
  <2>2. sinceSweep' \in 0..SweepPeriod /\ UNCHANGED <<pc, written, arrived>>
    BY DEF Tick, IInv, TypeOK
  <2> QED
    BY <2>1, <2>2 DEF IInv, TypeOK
<1>4. FramesApart'
  <2>1. \A g, h \in frames : g # h => Distance(g.ts, h.ts) > Tolerance
    BY DEF IInv, FramesApart
  <2>2. \A g, h \in frames' : g # h => Distance(g.ts, h.ts) > Tolerance
    BY <1>1, <1>2, <2>1
  <2> QED
    BY <2>2 DEF FramesApart, Distance
<1>5. FramesCount'
  BY <1>1, <1>2 DEF IInv, FramesCount
<1> QED
  BY <1>3, <1>4, <1>5 DEF IInv

LEMMA NextInv == IInv /\ [Next]_vars => IInv'
<1> SUFFICES ASSUME IInv, [Next]_vars PROVE IInv'
  OBVIOUS
<1> USE AggregatorAssumption
<1>1. ASSUME NEW r \in Results, Accumulate(r) PROVE IInv'
  BY <1>1, AccumulateInv
<1>2. CASE NoResult
  <2>1. TypeOK' /\ frames' \subseteq frames
    BY <1>2 DEF NoResult, IInv, TypeOK
  <2> QED
    BY <2>1, FewerFrames DEF IInv
<1>3. CASE Sweep
  <2>1. frames' \subseteq frames /\ sinceSweep' \in 0..SweepPeriod
    BY <1>3 DEF Sweep, IInv, TypeOK
  <2>2. TypeOK'
    BY <1>3, <2>1 DEF Sweep, IInv, TypeOK
  <2> QED
    BY <2>1, <2>2, FewerFrames DEF IInv
<1>4. CASE Tick
  BY <1>4, TickInv
<1>5. CASE UNCHANGED vars
  <2>1. TypeOK' /\ frames' \subseteq frames
    BY <1>5 DEF vars, IInv, TypeOK
  <2> QED
    BY <2>1, FewerFrames DEF IInv
<1> QED
  BY <1>1, <1>2, <1>3, <1>4, <1>5 DEF Next

LEMMA Invariance == Safety => []IInv
BY InitInv, NextInv, PTL DEF Safety

-----------------------------------------------------------------------------
\* The types hold; in particular every frame kept waits for at least one more input.
THEOREM AggregatorTypeCorrect == Safety => []TypeOK
<1>1. IInv => TypeOK
  BY DEF IInv
<1> QED
  BY <1>1, Invariance, PTL

\* The frames of continuum_map are always more than the tolerance apart.
THEOREM AggregatorFramesApart == Safety => []FramesApart
<1>1. IInv => FramesApart
  BY DEF IInv
<1> QED
  BY <1>1, Invariance, PTL

\* A frame's count, its inputs and its sum agree, however often inputs repeat their results.
THEOREM AggregatorFramesAgree == Safety => []FramesAgree
<1>1. IInv => FramesAgree
  BY DEF IInv, FramesCount, FramesAgree
<1> QED
  BY <1>1, Invariance, PTL

-----------------------------------------------------------------------------
(* What is written.  continuum_inputs is the number of inputs there are. *)

AllInputsEnabled == IsFiniteSet(Inputs) /\ Cardinality(Inputs) = ContinuumInputs

LEMMA FinishedFacts ==
  ASSUME IInv, AllInputsEnabled, NEW r \in Results, Finish(r, FrameFor(r))
  PROVE  /\ Counted(FrameFor(r), r).inputs = Inputs
         /\ Counted(FrameFor(r), r).power = SumFunctionOnSet(Power, Inputs)
<1> DEFINE c == Counted(FrameFor(r), r)
<1>1. FrameFor(r) \in FoundFrame /\ r.input \in Inputs
  BY FrameForFacts, AggregatorAssumption DEF Result
<1>2. /\ IsFiniteSet(c.inputs) /\ c.received = Cardinality(c.inputs)
      /\ c.power = SumFunctionOnSet(Power, c.inputs)
  BY FrameForFacts, CountedFacts DEF Finish
<1>3. c.inputs \subseteq Inputs
  BY <1>1 DEF Counted, FoundFrame
<1>4. Cardinality(c.inputs) = Cardinality(Inputs)
  BY <1>2 DEF Finish, Complete, AllInputsEnabled
<1>5. c.inputs = Inputs
  BY <1>3, <1>4, FS_Subset DEF AllInputsEnabled
<1> QED
  BY <1>2, <1>5

(***************************************************************************)
(* No partial sums: whenever accumulate_continuum hands an integration to  *)
(* ContinuumFits::write, it has counted every input exactly once.          *)
(***************************************************************************)
AllInputsCounted ==
  \A r \in Results : Finish(r, FrameFor(r)) => Counted(FrameFor(r), r).inputs = Inputs

THEOREM AggregatorNeverPartial ==
  ASSUME AllInputsEnabled
  PROVE  Safety => [][AllInputsCounted]_vars
<1>1. IInv => AllInputsCounted
  BY FinishedFacts DEF AllInputsCounted
<1> QED
  BY <1>1, Invariance, PTL

\* written only grows, and only by what Finish appends.
LEMMA WrittenGrows ==
  ASSUME IInv, [Next]_vars
  PROVE  \/ written' = written
         \/ \E r \in Results :
              /\ Accumulate(r) /\ Finish(r, FrameFor(r))
              /\ Len(written') = Len(written) + 1
              /\ \A n \in 1..Len(written) : written'[n] = written[n]
              /\ written'[Len(written')].of = r.of
              /\ written'[Len(written')].power = Counted(FrameFor(r), r).power
<1>1. CASE NoResult \/ Sweep \/ Tick \/ UNCHANGED vars
  BY <1>1 DEF NoResult, Sweep, Tick, vars
<1>2. ASSUME NEW r \in Results, Accumulate(r), ~Finish(r, FrameFor(r))
      PROVE  written' = written
  BY <1>2 DEF Accumulate, Discard, Repeat, Add
<1>3. ASSUME NEW r \in Results, Accumulate(r), Finish(r, FrameFor(r))
      PROVE  /\ Len(written') = Len(written) + 1
             /\ \A n \in 1..Len(written) : written'[n] = written[n]
             /\ written'[Len(written')].of = r.of
             /\ written'[Len(written')].power = Counted(FrameFor(r), r).power
  <2> DEFINE w == [of |-> r.of, start |-> FrameFor(r).start, noise |-> FrameFor(r).noise,
                   power |-> Counted(FrameFor(r), r).power]
  <2>1. written' = Append(written, w)
    BY <1>3 DEF Finish
  <2>2. w.of = r.of /\ w.power = Counted(FrameFor(r), r).power
    OBVIOUS
  <2> HIDE DEF w
  <2>3. written \in Seq(Written) /\ Len(written) \in Nat
    BY DEF IInv, TypeOK
  <2> QED
    BY <2>1, <2>2, <2>3
<1> QED
  BY <1>1, <1>2, <1>3 DEF Next

(***************************************************************************)
(* "The recorder never writes a partial continuum sum": every power that   *)
(* was written is the sum over all inputs.                                 *)
(***************************************************************************)
THEOREM AggregatorSumsWhole ==
  ASSUME AllInputsEnabled
  PROVE  Safety => []SumsWhole
<1>1. Init => SumsWhole
  BY DEF Init, SumsWhole
<1>2. IInv /\ SumsWhole /\ [Next]_vars => SumsWhole'
  <2> SUFFICES ASSUME IInv, SumsWhole, [Next]_vars PROVE SumsWhole'
    OBVIOUS
  <2>1. CASE written' = written
    BY <2>1 DEF SumsWhole
  <2>2. ASSUME NEW r \in Results, Finish(r, FrameFor(r)),
               Len(written') = Len(written) + 1,
               \A n \in 1..Len(written) : written'[n] = written[n],
               written'[Len(written')].power = Counted(FrameFor(r), r).power
        PROVE  SumsWhole'
    <3>1. written'[Len(written')].power = SumFunctionOnSet(Power, Inputs)
      BY <2>2, FinishedFacts
    <3>2. Len(written) \in Nat
      BY DEF IInv, TypeOK
    <3>3. \A n \in 1..Len(written') : n \in 1..Len(written) \/ n = Len(written')
      BY <2>2, <3>2
    <3> QED
      BY <2>2, <3>1, <3>3 DEF SumsWhole
  <2> QED
    BY <2>1, <2>2, WrittenGrows
<1> QED
  BY <1>1, <1>2, Invariance, PTL DEF Safety

-----------------------------------------------------------------------------
(* Contradictions *)

Header(x) == <<x.start, x.noise, x.exposure>>

(***************************************************************************)
(* What the senders do: no two integrations have the same start, noise     *)
(* state and exposure, and an input that sends several results for one     *)
(* integration repeats itself.                                             *)
(***************************************************************************)
SendersRegular ==
  /\ IsFiniteSet(Results)
  /\ \A r, q \in Results : Header(r) = Header(q) => r.of = q.of
  /\ \A r \in Results : MaxArrivals[r.input] <= 1 \/ \A q \in Alike(r) : Header(q) = Header(r)

\* Input i has reported h.
Came(i, h) == \E r \in Results : r.input = i /\ arrived[r] > 0 /\ Header(r) = h

\* What is counted came, with the header of its frame; what is written came from all inputs.
InputsCame ==
  /\ \A f \in frames : \A i \in f.inputs : Came(i, Header(f))
  /\ \A n \in 1..Len(written) :
       \E h : /\ \A i \in Inputs : Came(i, h)
              /\ \A r \in Results : Header(r) = h => r.of = written[n].of

\* An input that may send only one result for an integration does not send two.
OneEach ==
  \A r \in Results : \A q \in Alike(r) :
    MaxArrivals[r.input] <= 1 /\ arrived[r] > 0 /\ arrived[q] > 0 => q = r

LEMMA CameStays ==
  ASSUME IInv, [Next]_vars, NEW i, NEW h, Came(i, h)
  PROVE  Came(i, h)'
<1>1. PICK r \in Results : r.input = i /\ arrived[r] > 0 /\ Header(r) = h
  BY DEF Came
<1>2. arrived \in [Results -> Nat]
  BY DEF IInv, TypeOK
<1>3. arrived' = arrived \/ \E q \in Results : arrived' = [arrived EXCEPT ![q] = @ + 1]
  BY DEF Next, Accumulate, NoResult, Sweep, Tick, vars
<1>4. arrived'[r] > 0
  BY <1>1, <1>2, <1>3
<1> QED
  BY <1>1, <1>4 DEF Came, Header

LEMMA FrameForCame ==
  ASSUME IInv, InputsCame, NEW r \in Results
  PROVE  \A i \in FrameFor(r).inputs : Came(i, Header(FrameFor(r)))
<1>1. CASE Near(r.ts) = {}
  BY <1>1 DEF FrameFor, NewFrame
<1>2. CASE Near(r.ts) # {}
  <2>1. r.ts \in Nat
    BY AggregatorAssumption DEF Result
  <2>2. FrameFor(r) \in frames
    BY <1>2, <2>1, FindFinds DEF FrameFor, Near, IInv
  <2> QED
    BY <2>2 DEF InputsCame
<1> QED
  BY <1>1, <1>2

\* With the result that is counted, too, all that a frame counts came.
LEMMA CountedCame ==
  ASSUME IInv, InputsCame, NEW r \in Results, Accumulate(r), Consistent(FrameFor(r), r)
  PROVE  /\ Header(Counted(FrameFor(r), r)) = Header(r)
         /\ \A i \in Counted(FrameFor(r), r).inputs : Came(i, Header(r))'
<1> DEFINE f == FrameFor(r)
           c == Counted(f, r)
<1>1. f \in FoundFrame
  BY FrameForFacts
<1>2. Header(f) = Header(r)
  BY DEF Header, Consistent
<1>3. c.inputs = f.inputs \cup {r.input} /\ Header(c) = Header(f)
  BY <1>1 DEF Counted, FoundFrame, Header
<1>4. [Next]_vars
  BY DEF Next
<1>5. \A i \in f.inputs : Came(i, Header(r))
  BY <1>2, FrameForCame
<1>6. \A i \in f.inputs : Came(i, Header(r))'
  <2> TAKE i \in f.inputs
  <2> DEFINE h == Header(r)
  <2>1. Came(i, h)
    BY <1>5
  <2> HIDE DEF h
  <2>2. Came(i, h)'
    BY <1>4, <2>1, CameStays
  <2> QED
    BY <2>2 DEF h
<1>7. Came(r.input, Header(r))'
  <2>1. arrived \in [Results -> Nat] /\ arrived' = [arrived EXCEPT ![r] = @ + 1]
    BY DEF IInv, TypeOK, Accumulate
  <2>2. arrived'[r] > 0
    BY <2>1
  <2> QED
    BY <2>2 DEF Came, Header
<1> QED
  BY <1>2, <1>3, <1>6, <1>7

\* Each frame after a step was there before or counts one result more.
LEMMA FramesAfter ==
  ASSUME IInv, [Next]_vars, NEW g \in frames'
  PROVE  \/ \E f \in frames : g.inputs = f.inputs /\ Header(g) = Header(f)
         \/ \E r \in Results : /\ Accumulate(r) /\ Consistent(FrameFor(r), r)
                               /\ g = Counted(FrameFor(r), r)
<1>1. CASE NoResult \/ Sweep \/ UNCHANGED vars
  BY <1>1 DEF NoResult, Sweep, vars
<1>2. CASE Tick
  <2>1. PICK f \in frames : g = Older(f)
    BY <1>2 DEF Tick, Older
  <2>2. f \in Frame
    BY DEF IInv, TypeOK
  <2> QED
    BY <2>1, <2>2 DEF Older, Frame, Header
<1>3. ASSUME NEW r \in Results, Accumulate(r)
      PROVE  g \in frames \/ (Consistent(FrameFor(r), r) /\ g = Counted(FrameFor(r), r))
  BY <1>3 DEF Accumulate, Discard, Repeat, Add, Finish
<1> QED
  BY <1>1, <1>2, <1>3 DEF Next

LEMMA InputsCameNext ==
  ASSUME AllInputsEnabled, SendersRegular, IInv, InputsCame, [Next]_vars
  PROVE  InputsCame'
<1>1. ASSUME NEW g \in frames', NEW i \in g.inputs PROVE Came(i, Header(g))'
  <2>1. CASE \E f \in frames : g.inputs = f.inputs /\ Header(g) = Header(f)
    <3> DEFINE h == Header(g)
    <3>1. Came(i, h)
      BY <2>1 DEF InputsCame
    <3> HIDE DEF h
    <3>2. Came(i, h)'
      BY <3>1, CameStays
    <3> QED
      BY <3>2 DEF h
  <2>2. CASE \E r \in Results : /\ Accumulate(r) /\ Consistent(FrameFor(r), r)
                                /\ g = Counted(FrameFor(r), r)
    BY <2>2, CountedCame
  <2> QED
    BY <2>1, <2>2, FramesAfter
<1>2. ASSUME NEW n \in 1..Len(written)
      PROVE  \E h : /\ \A i \in Inputs : Came(i, h)'
                    /\ \A r \in Results : Header(r) = h => r.of = written[n].of
  <2>1. PICK h : /\ \A i \in Inputs : Came(i, h)
                 /\ \A r \in Results : Header(r) = h => r.of = written[n].of
    BY DEF InputsCame
  <2> QED
    BY <2>1, CameStays
<1>3. CASE written' = written
  BY <1>1, <1>2, <1>3 DEF InputsCame
<1>4. ASSUME NEW r \in Results, Accumulate(r), Finish(r, FrameFor(r)),
             Len(written') = Len(written) + 1,
             \A n \in 1..Len(written) : written'[n] = written[n],
             written'[Len(written')].of = r.of
      PROVE  InputsCame'
  <2>1. /\ \A i \in Inputs : Came(i, Header(r))'
        /\ \A q \in Results : Header(q) = Header(r) => q.of = r.of
    BY <1>4, CountedCame, FinishedFacts DEF Finish, SendersRegular
  <2>2. Len(written) \in Nat
    BY DEF IInv, TypeOK
  <2>3. \A n \in 1..Len(written') : n \in 1..Len(written) \/ n = Len(written')
    BY <1>4, <2>2
  <2>4. ASSUME NEW n \in 1..Len(written')
        PROVE  \E h : /\ \A i \in Inputs : Came(i, h)'
                      /\ \A q \in Results : Header(q) = h => q.of = written'[n].of
    <3>1. CASE n \in 1..Len(written)
      <4>1. PICK h : /\ \A i \in Inputs : Came(i, h)'
                     /\ \A q \in Results : Header(q) = h => q.of = written[n].of
        BY <1>2, <3>1
      <4>2. written'[n] = written[n]
        BY <1>4, <3>1
      <4> QED
        BY <4>1, <4>2
    <3>2. CASE n = Len(written')
      BY <1>4, <2>1, <3>2
    <3> QED
      BY <2>3, <3>1, <3>2
  <2> QED
    BY <1>1, <2>4 DEF InputsCame
<1> QED
  BY <1>3, <1>4, WrittenGrows

LEMMA OneEachNext ==
  ASSUME SendersRegular, IInv, OneEach, [Next]_vars
  PROVE  OneEach'
<1>1. CASE arrived' = arrived
  BY <1>1 DEF OneEach, Alike
<1>2. ASSUME NEW r \in Results, Accumulate(r) PROVE OneEach'
  <2>1. /\ arrived \in [Results -> Nat] /\ arrived' = [arrived EXCEPT ![r] = @ + 1]
        /\ SumFunctionOnSet(arrived, Alike(r)) < MaxArrivals[r.input]
    BY <1>2 DEF IInv, TypeOK, Accumulate
  <2>2. \A q \in Results : q # r => arrived'[q] = arrived[q]
    BY <2>1
  <2>3. ASSUME MaxArrivals[r.input] <= 1, NEW q \in Alike(r) PROVE arrived[q] = 0
    <3>1. r.input \in Inputs /\ MaxArrivals[r.input] \in Nat
      BY AggregatorAssumption DEF Result
    <3>2. Alike(r) \in SUBSET Results /\ IsFiniteSet(Alike(r)) /\ Alike(r) \ {q} \in SUBSET Results
          /\ IsFiniteSet(Alike(r) \ {q})
      BY FS_Subset DEF Alike, SendersRegular
    <3>3. /\ SumFunctionOnSet(arrived, Alike(r)) \in Nat
          /\ SumFunctionOnSet(arrived, Alike(r) \ {q}) \in Nat
          /\ SumFunctionOnSet(arrived, Alike(r))
               = arrived[q] + SumFunctionOnSet(arrived, Alike(r) \ {q})
      BY <2>1, <3>2, SumTakeOut
    <3>4. arrived[q] \in Nat
      BY <2>1, <3>2
    <3> QED
      BY <2>1, <2>3, <3>1, <3>3, <3>4
  <2>4. ASSUME NEW p \in Results, NEW q \in Alike(p), MaxArrivals[p.input] <= 1,
               arrived'[p] > 0, arrived'[q] > 0
        PROVE  q = p
    <3>1. CASE p = r
      BY <2>2, <2>3, <2>4, <3>1 DEF Alike
    <3>2. CASE q = r
      <4>1. p \in Alike(r) /\ MaxArrivals[r.input] <= 1
        BY <2>4, <3>2 DEF Alike
      <4>2. p # r => arrived[p] = 0 /\ arrived'[p] = arrived[p]
        BY <2>2, <2>3, <4>1
      <4> QED
        BY <2>4, <3>2, <4>2
    <3>3. CASE p # r /\ q # r
      BY <2>2, <2>4, <3>3 DEF OneEach, Alike
    <3> QED
      BY <3>1, <3>2, <3>3
  <2> QED
    BY <2>4 DEF OneEach, Alike
<1> QED
  BY <1>1, <1>2 DEF Next, NoResult, Sweep, Tick, vars

(***************************************************************************)
(* An integration for which some input reported another start, noise state *)
(* or exposure than the others is never written, in whatever order and     *)
(* however often the results arrive, and whatever times out meanwhile.     *)
(***************************************************************************)
THEOREM AggregatorContradictedNeverWritten ==
  ASSUME AllInputsEnabled, SendersRegular
  PROVE  Safety => []ContradictedNeverWritten
<1>1. Init => InputsCame /\ OneEach
  BY DEF Init, InputsCame, OneEach, Alike
<1>2. IInv /\ InputsCame /\ OneEach /\ [Next]_vars => InputsCame' /\ OneEach'
  BY InputsCameNext, OneEachNext
<1>3. IInv /\ InputsCame /\ OneEach => ContradictedNeverWritten
  <2> SUFFICES ASSUME IInv, InputsCame, OneEach, NEW n \in 1..Len(written),
                      Contradicted(written[n].of)
               PROVE  FALSE
    BY DEF ContradictedNeverWritten
  <2>1. PICK r \in Results, q \in Results :
          /\ r.of = written[n].of /\ arrived[r] > 0
          /\ q.of = written[n].of /\ arrived[q] > 0
          /\ Header(r) # Header(q)
    BY DEF Contradicted, Header
  <2>2. PICK h : /\ \A i \in Inputs : Came(i, h)
                 /\ \A p \in Results : Header(p) = h => p.of = written[n].of
    BY DEF InputsCame
  <2>3. ASSUME NEW p \in Results, p.of = written[n].of, arrived[p] > 0 PROVE Header(p) = h
    <3>1. p.input \in Inputs
      BY AggregatorAssumption DEF Result
    <3>2. PICK o \in Results : o.input = p.input /\ arrived[o] > 0 /\ Header(o) = h
      BY <2>2, <3>1 DEF Came
    <3>3. o \in Alike(p)
      BY <2>2, <2>3, <3>2 DEF Alike
    <3>4. Header(o) = Header(p)
      BY <2>3, <3>2, <3>3 DEF OneEach, SendersRegular
    <3> QED
      BY <3>2, <3>4
  <2> QED
    BY <2>1, <2>3
<1> QED
  BY <1>1, <1>2, <1>3, Invariance, PTL DEF Safety

=============================================================================
